---- MODULE Spec2Model ----
(***************************************************************************)
(* A model of the JARVIS voice agent core (NicoLafakis/WhisperApp):        *)
(*   - RealtimeClient   (src/src/main/services/RealtimeClient.ts)          *)
(*   - FallbackChain    (src/src/main/services/FallbackChain.ts, 23-271)   *)
(*   - JarvisEngine     (src/src/main/services/FallbackChain.ts, 307-747)  *)
(* Each component has its own specification over the shared variables.     *)
(***************************************************************************)
EXTENDS Integers, Sequences, FiniteSets, TLC

(***************************************************************************)
(* Bounds of the model (not program constants).                            *)
(***************************************************************************)
\* sockets that may be alive (not yet closed) at the same time
MaxLive == 2
\* pending reconnect timers whose handle was overwritten or forgotten
MaxLeaked == 1
\* messages that generateResponse pushes in one run of the chain
MaxAppends == 13
\* tool calls the backends emit in one run of the engine
MaxCalls == 2
\* frames held in JarvisEngine.audioBuffer
MaxFrames == 1
\* greeting timers pending at the same time
MaxGreets == 1
\* segments of a path given to the FunctionExecutor
MaxSegs == 2
\* entries held by the CostTracker
MaxEntries == 2
\* entries held by the CostTracker when only the ledger runs
MaxRecorded == 4

(***************************************************************************)
(* DEFAULT_RECONNECTION_CONFIG, RealtimeClient.ts 24-30                    *)
(***************************************************************************)
maxAttempts == 5
initialDelayMs == 1000
maxDelayMs == 30000
backoffMultiplier == 2

VARIABLES
    client,      \* the fields of one RealtimeClient, its sockets and its output
    suppressed,  \* history: disconnect(true) was the last lifecycle call
    sched,       \* history: reconnecting events since the last open / reconnect()
    fails,       \* history: failed reconnection attempts since the last open / reconnect()
    failedEv,    \* history: reconnection.failed events since the last open / reconnect()
    totalWait,   \* history: sum of the announced delays since the last open / reconnect()
    conversationHistory,  \* FallbackChain.conversationHistory
    chainPc,     \* where generateResponse stands: "idle" or "completion"
    appended,    \* history: messages pushed by generateResponse so far
    emitted,     \* history: the events of the last processAudio call, in order
    eng,         \* the fields of the JarvisEngine and its pending timers and awaits
    call,        \* the tool calls the backends emitted, and what became of each
    order,       \* history: the calls whose result reached the backend, in order
    frame,       \* history: what became of the last inbound audio frame
    executor,    \* one FunctionExecutor and the call of execute in progress
    router,      \* one AdaptiveRouter, its CostTracker and the clock
    forcing,     \* history: what the setForcedMode calls did so far
    audit,       \* history: what the record calls returned and pushed so far
    stopLog,     \* history: what the last step did if it was a call of stop()
    nudges       \* history: follow-up prompts since the last speech start / reset

clientVars == <<client, suppressed, sched, fails, failedEv, totalWait>>

chainVars == <<conversationHistory, chainPc, appended, emitted>>

engineVars == <<eng, call, order, frame>>

serviceVars == <<executor, router, forcing, audit, stopLog, nudges>>

vars == <<client, suppressed, sched, fails, failedEv, totalWait,
          conversationHistory, chainPc, appended, emitted, eng, call, order,
          frame,
          executor, router, forcing, audit, stopLog, nudges>>

----------------------------------------------------------------------------
(***************************************************************************)
(* Helpers                                                                 *)
(***************************************************************************)
Min(a, b) == IF a <= b THEN a ELSE b

RECURSIVE Pow(_, _)
Pow(b, e) == IF e <= 0 THEN 1 ELSE b * Pow(b, e - 1)

RECURSIVE CountType(_, _)
CountType(s, t) ==
    IF s = <<>> THEN 0
    ELSE (IF Head(s).type = t THEN 1 ELSE 0) + CountType(Tail(s), t)

RECURSIVE SumDelay(_)
SumDelay(s) ==
    IF s = <<>> THEN 0
    ELSE (IF Head(s).type = "reconnecting" THEN Head(s).delay ELSE 0) + SumDelay(Tail(s))

\* an emitted event or a message written to a socket
Ev(t, a, d) == [type |-> t, attempt |-> a, delay |-> d]

----------------------------------------------------------------------------
(***************************************************************************)
(* RealtimeClient                                                          *)
(*                                                                         *)
(* client.ws and client.connectionPromise hold a socket slot, NULL, or     *)
(* GONE: a reference to a socket that has closed (ws), respectively to a   *)
(* promise that can no longer settle (connectionPromise).                  *)
(***************************************************************************)
NULL == 0
GONE == -1
Slots == 1..MaxLive

\* a socket: st is the WebSocket readyState, refined by how CLOSING was
\* entered ("abort": close() during the handshake, "closing": close() of an
\* open socket); origin is the caller of establishConnection; settled is
\* whether the promise of establishConnection is resolved or rejected; tmo is
\* whether the 30 s connectionTimeout is armed.
FreeSock == [st |-> "free", origin |-> "none", settled |-> FALSE, tmo |-> FALSE]

ClientInit ==
    [isConnected |-> FALSE, isReconnecting |-> FALSE,
     intentionalDisconnect |-> FALSE, reconnectAttempts |-> 0,
     ws |-> NULL, reconnectTimeout |-> FALSE, leaked |-> 0,
     connectionPromise |-> NULL,
     sock |-> [s \in Slots |-> FreeSock],
     out |-> <<>>]

Emit(c, e) == [c EXCEPT !.out = Append(@, e)]

FreeSlots(c) == {s \in Slots : c.sock[s].st = "free"}

\* WebSocket.close(): a no-op unless the socket is CONNECTING or OPEN
WsClose(c, s) ==
    IF s \in Slots /\ c.sock[s].st = "connecting"
    THEN [c EXCEPT !.sock[s].st = "abort"]
    ELSE IF s \in Slots /\ c.sock[s].st = "open"
    THEN [c EXCEPT !.sock[s].st = "closing"]
    ELSE c

\* the socket has emitted close: the slot is free again, references dangle
Release(c, s) ==
    [c EXCEPT !.sock[s] = FreeSock,
              !.ws = IF @ = s THEN GONE ELSE @,
              !.connectionPromise =
                  IF @ = s /\ ~c.sock[s].settled THEN GONE ELSE @]

\* send(): dropped unless ws is set and isConnected; ws.send throws (caught)
\* unless that socket is open
Send(c, t) ==
    IF c.ws = NULL \/ ~c.isConnected THEN c
    ELSE IF c.ws \in Slots /\ c.sock[c.ws].st = "open" THEN Emit(c, Ev(t, 0, 0))
    ELSE c

initializeSession(c) == Emit(Send(c, "send.session.update"), Ev("connected", 0, 0))

ReconnectDelayBad(c) ==
    initialDelayMs * Pow(backoffMultiplier, c.reconnectAttempts)

ReconnectDelay(c) ==
    Min(initialDelayMs * Pow(backoffMultiplier, c.reconnectAttempts - 1), maxDelayMs)

\* the guard `reconnectAttempts >= maxAttempts` of scheduleReconnection
AttemptsExhaustedBad(c) == c.reconnectAttempts > maxAttempts

AttemptsExhaustedEarly(c) == c.reconnectAttempts >= maxAttempts - 1

AttemptsExhausted(c) == c.reconnectAttempts >= maxAttempts

scheduleReconnection(c) ==
    IF c.isReconnecting \/ c.intentionalDisconnect THEN c
    ELSE IF AttemptsExhausted(c)
    THEN Emit(c, Ev("reconnection.failed", c.reconnectAttempts, 0))
    ELSE LET c1 == [c EXCEPT !.isReconnecting = TRUE,
                             !.reconnectAttempts = @ + 1]
             c2 == Emit(c1, Ev("reconnecting", c1.reconnectAttempts, ReconnectDelay(c1)))
         IN  \* the handle of a timer that is still pending is overwritten
             [c2 EXCEPT !.reconnectTimeout = TRUE,
                        !.leaked = IF c.reconnectTimeout THEN @ + 1 ELSE @]

cancelReconnection(c) ==
    [c EXCEPT !.reconnectTimeout = FALSE, !.isReconnecting = FALSE]

\* new WebSocket(url) in establishConnection, with its handlers and timeout
establishConnection(c, s, from) ==
    [c EXCEPT !.ws = s,
              !.sock[s] = [st |-> "connecting", origin |-> from,
                           settled |-> FALSE, tmo |-> TRUE],
              !.out = Append(@, Ev("ws.new", 0, 0))]

\* what runs when the promise of establishConnection for socket s settles:
\* the finally of connect(), or the try/catch of the reconnect timer callback
Settle(c, s, ok) ==
    IF c.sock[s].settled THEN c
    ELSE LET c1 == [c EXCEPT !.sock[s].settled = TRUE]
         IN  IF c.sock[s].origin = "connect"
             THEN [c1 EXCEPT !.connectionPromise = NULL]
             ELSE IF ok
             THEN Emit(c1, Ev("reconnected", c1.reconnectAttempts, 0))
             ELSE scheduleReconnection([c1 EXCEPT !.isReconnecting = FALSE])

\* ws.on('open')
OnOpen(c, s) ==
    LET c1 == [c EXCEPT !.sock[s].st = "open", !.sock[s].tmo = FALSE,
                        !.isConnected = TRUE, !.isReconnecting = FALSE,
                        !.reconnectAttempts = 0]
    IN  Settle(initializeSession(c1), s, TRUE)

\* ws.on('close')
OnClose(c, s) ==
    LET wasConnected == c.isConnected
        c1 == Emit([c EXCEPT !.isConnected = FALSE, !.sock[s].tmo = FALSE],
                   Ev("disconnected", 0, 0))
    IN  IF ~c1.intentionalDisconnect /\ wasConnected
        THEN scheduleReconnection(c1)
        ELSE c1

\* ws.on('error') during the handshake, then ws.on('close') in the same
\* tick, then the continuation of the rejected promise
OnErrorClose(c, s) ==
    LET rejects == ~c.isConnected
        c1 == Emit([c EXCEPT !.sock[s].tmo = FALSE], Ev("error", 0, 0))
        c2 == OnClose(c1, s)
        c3 == IF rejects THEN Settle(c2, s, FALSE) ELSE c2
    IN  Release(c3, s)

\* the connectionTimeout callback of socket s
OnConnTimeout(c, s) ==
    LET c1 == [c EXCEPT !.sock[s].tmo = FALSE]
    IN  IF c.isConnected THEN c1
        ELSE Settle(WsClose(c1, c1.ws), s, FALSE)

\* disconnect(intentional)
disconnect(c, intentional) ==
    LET c1 == cancelReconnection([c EXCEPT !.intentionalDisconnect = intentional])
    IN  IF c1.ws # NULL
        THEN [WsClose(c1, c1.ws) EXCEPT !.ws = NULL, !.isConnected = FALSE]
        ELSE c1

\* connect(), up to its await
connect(c, s) ==
    IF c.isConnected \/ c.connectionPromise # NULL THEN c
    ELSE LET c1 == establishConnection([c EXCEPT !.intentionalDisconnect = FALSE],
                                       s, "connect")
         IN  [c1 EXCEPT !.connectionPromise = s]

----------------------------------------------------------------------------
(***************************************************************************)
(* The steps of the client.  Every step starts with an empty output, so    *)
(* client.out is what the step emitted and sent, in order.  The steps      *)
(* constrain clientVars only.                                              *)
(***************************************************************************)
Begin == [client EXCEPT !.out = <<>>]

\* the slot a new socket takes
NewSlot == CHOOSE t \in FreeSlots(client) : \A u \in FreeSlots(client) : t <= u

ClientStep(c2, reset) ==
    /\ client' = c2
    /\ sched' = (IF reset THEN 0 ELSE sched) + CountType(c2.out, "reconnecting")
    /\ totalWait' = (IF reset THEN 0 ELSE totalWait) + SumDelay(c2.out)
    /\ failedEv' = Min(2, (IF reset THEN 0 ELSE failedEv)
                           + CountType(c2.out, "reconnection.failed"))

\* the promise of a reconnect attempt on socket s is about to be rejected
AttemptFails(s) ==
    /\ client.sock[s].origin = "timer"
    /\ ~client.sock[s].settled
    /\ ~client.isConnected

\* connect() called by the owner of the client
ConnectStep ==
    /\ ~client.isConnected
    /\ client.connectionPromise = NULL
    /\ FreeSlots(client) # {}
    /\ ClientStep(connect(Begin, NewSlot), FALSE)
    /\ suppressed' = FALSE
    /\ fails' = fails

\* reconnect() called by the owner of the client
ReconnectStep ==
    /\ FreeSlots(client) # {}
    /\ LET c1 == [disconnect(Begin, FALSE) EXCEPT !.reconnectAttempts = 0]
       IN  ClientStep(connect(c1, NewSlot), TRUE)
    /\ suppressed' = FALSE
    /\ fails' = 0

\* disconnect(), intentional by default, as JarvisEngine.stop calls it
DisconnectStep ==
    /\ ClientStep(disconnect(Begin, TRUE), FALSE)
    /\ suppressed' = TRUE
    /\ fails' = fails

\* the reconnect timer that reconnectTimeout refers to fires
TimerFireStep ==
    /\ FreeSlots(client) # {}
    /\ client.reconnectTimeout
    /\ ClientStep(establishConnection(
           [Begin EXCEPT !.reconnectTimeout = FALSE], NewSlot, "timer"), FALSE)
    /\ UNCHANGED <<suppressed, fails>>

\* a reconnect timer whose handle was overwritten fires: its callback clears
\* reconnectTimeout all the same, so a timer that is still pending is
\* forgotten in its turn
LeakedTimerFireStep ==
    /\ FreeSlots(client) # {}
    /\ client.leaked > 0
    /\ client.leaked - 1 + (IF client.reconnectTimeout THEN 1 ELSE 0) <= MaxLeaked
    /\ ClientStep(establishConnection(
           [Begin EXCEPT !.reconnectTimeout = FALSE,
                         !.leaked = @ - 1 + (IF client.reconnectTimeout THEN 1 ELSE 0)],
           NewSlot, "timer"), FALSE)
    /\ UNCHANGED <<suppressed, fails>>

\* the handshake of socket s completes
SocketOpenStep(s) ==
    /\ client.sock[s].st = "connecting"
    /\ ClientStep(OnOpen(Begin, s), TRUE)
    /\ fails' = 0
    /\ UNCHANGED suppressed

\* the handshake of socket s fails, or the socket was closed during it
SocketFailStep(s) ==
    /\ client.sock[s].st \in {"connecting", "abort"}
    /\ LET c2 == OnErrorClose(Begin, s)
       IN  /\ c2.leaked <= MaxLeaked
           /\ ClientStep(c2, FALSE)
    /\ fails' = IF AttemptFails(s) THEN Min(maxAttempts + 1, fails + 1) ELSE fails
    /\ UNCHANGED suppressed

\* an open socket closes: dropped by the peer, or closed by the client
SocketCloseStep(s) ==
    /\ client.sock[s].st \in {"open", "closing"}
    /\ LET c2 == Release(OnClose(Begin, s), s)
       IN  /\ c2.leaked <= MaxLeaked
           /\ ClientStep(c2, FALSE)
    /\ UNCHANGED <<suppressed, fails>>

\* 30 s after new WebSocket(url) the handshake of socket s is still running
ConnTimeoutStep(s) ==
    /\ client.sock[s].st = "connecting"
    /\ client.sock[s].tmo
    /\ LET c2 == OnConnTimeout(Begin, s)
       IN  /\ c2.leaked <= MaxLeaked
           /\ ClientStep(c2, FALSE)
    /\ fails' = IF AttemptFails(s) THEN Min(maxAttempts + 1, fails + 1) ELSE fails
    /\ UNCHANGED suppressed

HistInit ==
    /\ suppressed = FALSE
    /\ sched = 0
    /\ fails = 0
    /\ failedEv = 0
    /\ totalWait = 0

ClientIdle ==
    /\ client = ClientInit
    /\ HistInit

----------------------------------------------------------------------------
(***************************************************************************)
(* FallbackChain.generateResponse and the history it keeps                 *)
(***************************************************************************)
\* `conversationHistory.length > 10`, FallbackChain.ts 162
HistoryLimit == 10

Msg(r, n) == [role |-> r, id |-> n]

\* Array.prototype.slice(-n)
SliceLast(h, n) == IF Len(h) <= n THEN h ELSE SubSeq(h, Len(h) - n + 1, Len(h))

\* lines 161-168
TrimHistory(h) ==
    IF Len(h) > HistoryLimit
    THEN IF h[1].role = "system"
         THEN <<h[1]>> \o SliceLast(h, 9)
         ELSE SliceLast(h, 10)
    ELSE h

\* lines 132-137: the user message is pushed before the remote call
GenerateBeginStep ==
    /\ chainPc = "idle"
    /\ appended < MaxAppends
    /\ conversationHistory' = Append(conversationHistory, Msg("user", appended + 1))
    /\ appended' = appended + 1
    /\ chainPc' = "completion"
    /\ UNCHANGED emitted

\* lines 147-177: the remote call returned
CompletionOkStep ==
    /\ chainPc = "completion"
    /\ conversationHistory' =
           TrimHistory(Append(conversationHistory, Msg("assistant", appended + 1)))
    /\ appended' = appended + 1
    /\ chainPc' = "idle"
    /\ UNCHANGED emitted

\* line 139 throws: nothing after it runs
CompletionFailStep ==
    /\ chainPc = "completion"
    /\ chainPc' = "idle"
    /\ UNCHANGED <<conversationHistory, appended, emitted>>

\* clearHistory(), lines 259-263
ClearHistoryStep ==
    /\ chainPc = "idle"
    /\ conversationHistory # <<>>
    /\ conversationHistory' =
           IF conversationHistory[1].role = "system"
           THEN <<conversationHistory[1]>> ELSE <<>>
    /\ UNCHANGED <<chainPc, appended, emitted>>

\* the constructor, lines 29-48: the system prompt is optional
ChainInit ==
    /\ conversationHistory \in {<<>>, <<Msg("system", 0)>>}
    /\ chainPc = "idle"
    /\ appended = 0
    /\ emitted = <<>>

ChainIdle ==
    /\ conversationHistory = <<>>
    /\ chainPc = "idle"
    /\ appended = 0
    /\ emitted = <<>>

----------------------------------------------------------------------------
(***************************************************************************)
(* JarvisEngine (autonomous mode), FallbackChain.ts 307-747                *)
(*                                                                         *)
(* eng.greetTimers counts the pending 1 s greeting timers of start(), and  *)
(* eng.starting is TRUE while start() awaits realtimeClient.connect().     *)
(* eng.earlier is the socket of a RealtimeClient that an earlier call of   *)
(* start() created and wired and that a later call of start() replaced in  *)
(* this.realtimeClient: "none", "connecting", "open" or "failed".          *)
(* processBufferedAudio (625-649) is private and has no caller in this     *)
(* class, so the three-stage chain never runs under this engine and the    *)
(* handlers of its events (576-607) never fire.                            *)
(***************************************************************************)
Calls == 1..MaxCalls

\* `maxFollowUps`, line 326
maxFollowUps == 2

EngineInit ==
    [status |-> "idle", isRunning |-> FALSE, currentMode |-> "premium",
     buffered |-> 0, silenceTimer |-> 0, greetTimers |-> 0,
     hasGreeted |-> FALSE, followUpCount |-> 0, speaker |-> FALSE,
     isPlayingAudio |-> FALSE, realtimeClient |-> FALSE,
     fallbackChain |-> FALSE, isRecording |-> FALSE, starting |-> FALSE,
     earlier |-> "none"]

\* a tool call: st is none (not emitted yet), running (the executor was
\* called), done (handleFunctionCall has returned) or cut (stop() ran while
\* the executor was running; the call is not followed further); outcome is
\* how the executor ended; payload is what send() put on the wire for the
\* call, "none" if nothing
NoCall == [st |-> "none", outcome |-> "none", payload |-> "none"]

\* no follow-up prompt yet since the last 'speech.started' (speech) and since
\* the last reset of followUpCount (reset)
NoNudges == [speech |-> 0, reset |-> 0]

updateStatus(e, s) == [e EXCEPT !.status = s]

\* eng.silenceTimer counts the pending timers that startSilenceTimer set
clearSilenceTimer(e) == [e EXCEPT !.silenceTimer = 0]

\* lines 419-431
startSilenceTimerBad(e) ==
    IF e.followUpCount >= maxFollowUps THEN clearSilenceTimer(e)
    ELSE [e EXCEPT !.silenceTimer = @ + 1]

startSilenceTimer(e) ==
    IF e.followUpCount >= maxFollowUps THEN clearSilenceTimer(e)
    ELSE [clearSilenceTimer(e) EXCEPT !.silenceTimer = @ + 1]

finishInteraction(e) ==
    updateStatus([e EXCEPT !.speaker = FALSE, !.isPlayingAudio = FALSE], "idle")

playAudio(e) == [e EXCEPT !.speaker = TRUE, !.isPlayingAudio = TRUE]

\* the guard of handleAudioInput, line 612
DropsFrameBad(e) == e.status = "speaking"

DropsFrame(e) == e.status \in {"speaking", "error"}

\* the test `currentMode === 'premium' && realtimeClient`
UsesRealtime(e) == e.currentMode = "premium" /\ e.realtimeClient

\* RealtimeClient.sendText: throws unless connected
sendText(c) ==
    IF ~c.isConnected THEN c
    ELSE Send(Send(c, "send.conversation.item.create"), "send.response.create")

\* `if (!this.isConnected) throw`, RealtimeClient.ts 336-338
sendAudioThrows(c) == ~c.isConnected

\* RealtimeClient.sendAudio: throws unless connected
sendAudio(c) ==
    IF ~c.isConnected THEN c ELSE Send(c, "send.input_audio_buffer.append")

\* RealtimeClient.sendFunctionResult
sendFunctionResult(c) ==
    Send(Send(c, "send.function_call_output"), "send.response.create")

\* the tail of start(), lines 376-389, after initializeClients has returned
StartContinue(e) ==
    updateStatus([e EXCEPT !.isRecording = TRUE, !.isRunning = TRUE,
                           !.starting = FALSE, !.greetTimers = @ + 1],
                 "listening")

\* the previous RealtimeClient has no socket and no timer left
ClientQuiet ==
    /\ \A s \in Slots : client.sock[s].st = "free"
    /\ ~client.reconnectTimeout
    /\ client.leaked = 0

\* no call of start() is still awaiting a connect() that can settle
NotStarting == ~eng.starting \/ client.connectionPromise = GONE

\* start() when the router picks premium: a new RealtimeClient, connect()
StartPremiumStep ==
    /\ ~eng.isRunning
    /\ NotStarting
    /\ ClientQuiet
    /\ eng.greetTimers < MaxGreets
    /\ eng' = [eng EXCEPT !.currentMode = "premium", !.realtimeClient = TRUE,
                          !.starting = TRUE]
    /\ ClientStep(connect(ClientInit, 1), TRUE)
    /\ suppressed' = FALSE
    /\ fails' = 0
    /\ UNCHANGED <<call, order, frame>>

\* start() when the router picks efficient: nothing to await
StartEfficientStep ==
    /\ ~eng.isRunning
    /\ NotStarting
    /\ eng.greetTimers < MaxGreets
    /\ eng' = StartContinue([eng EXCEPT !.currentMode = "efficient",
                                        !.fallbackChain = TRUE])
    /\ UNCHANGED <<clientVars, call, order, frame>>

\* the guard of start(), lines 364-367: isRunning is set at 378, after the
\* await of initializeClients
StartReturnsEarly(e) == e.isRunning

\* start() while an earlier call of start() still awaits connect(), the
\* router picking premium again: initializeClients (501-533) overwrites
\* this.realtimeClient with a new client, wires it and awaits its connect();
\* the earlier client keeps its socket and its handlers
StartAgainStep ==
    /\ ~StartReturnsEarly(eng)
    /\ eng.starting
    /\ client.connectionPromise \in Slots
    /\ client.sock[client.connectionPromise].st = "connecting"
    /\ eng.earlier = "none"
    /\ eng' = [eng EXCEPT !.currentMode = "premium", !.realtimeClient = TRUE,
                          !.earlier = "connecting"]
    /\ ClientStep(connect(ClientInit, 1), TRUE)
    /\ suppressed' = FALSE
    /\ fails' = 0
    /\ UNCHANGED <<call, order, frame>>

\* the handshake of the earlier client completes: the call of start() that
\* awaited it resumes at line 376, whatever the later call has done
EarlierOpenStep ==
    /\ eng.earlier = "connecting"
    /\ eng.greetTimers < MaxGreets
    /\ eng' = [StartContinue(eng) EXCEPT !.starting = eng.starting,
                                         !.earlier = "open"]
    /\ UNCHANGED <<clientVars, call, order, frame>>

\* the handshake of the earlier client fails: its start() rejects (390-393)
EarlierFailStep ==
    /\ eng.earlier = "connecting"
    /\ eng' = [eng EXCEPT !.earlier = "failed"]
    /\ UNCHANGED <<clientVars, call, order, frame>>

\* `if (!this.isRunning) return`, lines 464-466
StopReturnsEarlyBad(e) == FALSE

StopReturnsEarly(e) == ~e.isRunning

\* stop(), lines 463-499; speaker.end() is taken together with the close
\* event of the speaker, which clears isPlayingAudio
StopStep ==
    /\ ~StopReturnsEarly(eng)
    /\ eng' = updateStatus(
           [clearSilenceTimer(eng) EXCEPT
               !.isRecording = FALSE, !.isRunning = FALSE,
               !.hasGreeted = FALSE, !.followUpCount = 0, !.speaker = FALSE,
               !.isPlayingAudio = IF eng.speaker THEN FALSE ELSE @], "idle")
    /\ IF eng.realtimeClient THEN DisconnectStep ELSE UNCHANGED clientVars
    /\ call' = [i \in Calls |->
                   IF call[i].st = "running" THEN [call[i] EXCEPT !.st = "cut"]
                   ELSE call[i]]
    /\ UNCHANGED <<order, frame>>

\* a call of stop() in any state of the engine
StopCallStep ==
    \/ StopReturnsEarly(eng) /\ UNCHANGED <<clientVars, engineVars>>
    \/ StopStep

\* a step of the engine that makes the client send
ClientSends(c2) ==
    /\ ClientStep(c2, FALSE)
    /\ UNCHANGED <<suppressed, fails>>

\* the tail that greetUser (407-413) and handleSilenceTimeout (448-453)
\* share, from engine state e1: a text turn on the realtime session, or
\* fallbackChain.synthesizeAndPlay, a method that FallbackChain (23-271)
\* does not have, so that the call throws and finishInteraction is not
\* reached
SpeakStep(e1) ==
    IF UsesRealtime(e1)
    THEN /\ eng' = e1
         /\ ClientSends(sendText(Begin))
    ELSE /\ eng' = e1
         /\ UNCHANGED clientVars

\* greetUser() from engine state e
GreetStep(e) ==
    IF e.hasGreeted
    THEN eng' = e /\ UNCHANGED clientVars
    ELSE SpeakStep(updateStatus([e EXCEPT !.hasGreeted = TRUE], "speaking"))

\* the 1 s timer of start() fires; stop() does not cancel it
GreetTimerFireStep ==
    /\ eng.greetTimers > 0
    /\ GreetStep([eng EXCEPT !.greetTimers = @ - 1])
    /\ UNCHANGED <<call, order, frame>>

\* triggerWakeWord(), lines 740-746
TriggerWakeWordStep ==
    /\ GreetStep(clearSilenceTimer([eng EXCEPT !.followUpCount = 0,
                                               !.hasGreeted = FALSE]))
    /\ UNCHANGED <<call, order, frame>>

\* the silence timer fires: handleSilenceTimeout, lines 440-456
SilenceTimerFireStep ==
    /\ eng.silenceTimer > 0
    /\ SpeakStep(updateStatus([eng EXCEPT !.silenceTimer = @ - 1,
                                          !.followUpCount = @ + 1], "speaking"))
    /\ UNCHANGED <<call, order, frame>>

\* the realtime session can deliver a server event
RtOpen == eng.realtimeClient /\ \E s \in Slots : client.sock[s].st = "open"

\* 'speech.started', lines 550-555
SpeechStartedStep ==
    /\ RtOpen
    /\ eng' = updateStatus([clearSilenceTimer(eng) EXCEPT !.followUpCount = 0],
                           "listening")
    /\ UNCHANGED <<clientVars, call, order, frame>>

\* 'speech.stopped', lines 557-559
SpeechStoppedStep ==
    /\ RtOpen
    /\ eng' = updateStatus(eng, "thinking")
    /\ UNCHANGED <<clientVars, call, order, frame>>

\* 'response.done', lines 561-573
ResponseDoneStep ==
    /\ RtOpen
    /\ eng' = startSilenceTimer(finishInteraction([eng EXCEPT !.buffered = 0]))
    /\ UNCHANGED <<clientVars, call, order, frame>>

\* 'audio.delta', lines 538-540
AudioDeltaStep ==
    /\ RtOpen
    /\ eng' = playAudio(eng)
    /\ UNCHANGED <<clientVars, call, order, frame>>

\* the next call the backend emits
NextCall == CHOOSE i \in Calls : call[i].st = "none" /\ \A j \in 1..(i - 1) : call[j].st # "none"

\* 'function.call', lines 546-548: handleFunctionCall up to the await of
\* functionExecutor.execute, line 655
FunctionCallStep ==
    /\ RtOpen
    /\ \E i \in Calls : call[i].st = "none"
    /\ call' = [call EXCEPT ![NextCall].st = "running"]
    /\ UNCHANGED <<clientVars, eng, order, frame>>

\* functionExecutor.execute of call i settles with outcome o ("returned" or
\* "threw"): the rest of handleFunctionCall, lines 657-672
ExecDoneStep(i, o) ==
    /\ call[i].st = "running"
    /\ LET c2 == IF UsesRealtime(eng) THEN sendFunctionResult(Begin) ELSE Begin
           sent == \E k \in 1..Len(c2.out) : c2.out[k].type = "send.function_call_output"
       IN  /\ ClientSends(c2)
           /\ call' = [call EXCEPT ![i].st = "done", ![i].outcome = o,
                                   ![i].payload =
                                       IF ~sent THEN "none"
                                       ELSE IF o = "returned" THEN "result"
                                       ELSE "error"]
           /\ order' = IF sent THEN Append(order, i) ELSE order
    /\ UNCHANGED <<eng, frame>>

\* audioCapture emits 'audio': handleAudioInput, lines 609-622
AudioFrameStep ==
    /\ eng.isRecording
    /\ IF DropsFrame(eng)
       THEN /\ frame' = "dropped"
            /\ UNCHANGED <<eng, clientVars>>
       ELSE /\ eng.buffered < MaxFrames
            /\ frame' = IF UsesRealtime(eng) /\ sendAudioThrows(client)
                        THEN "raised" ELSE "taken"
            /\ eng' = [eng EXCEPT !.buffered = @ + 1]
            /\ IF UsesRealtime(eng)
               THEN ClientSends(sendAudio(Begin))
               ELSE UNCHANGED clientVars
    /\ UNCHANGED <<call, order>>

\* audioCapture emits 'error', lines 357-360
CaptureErrorStep ==
    /\ eng.isRecording
    /\ eng' = updateStatus(eng, "error")
    /\ UNCHANGED <<clientVars, call, order, frame>>

\* ws 'error' under the engine, which registers no 'error' listener on the
\* client: emit('error') at RealtimeClient.ts 117 throws out of the handler,
\* so the promise is not rejected and the socket never emits close
OnErrorUncaught(c, s) ==
    Release(Emit([c EXCEPT !.sock[s].tmo = FALSE], Ev("error", 0, 0)), s)

\* the handshake of socket s completes; start() resumes if it awaited it
EngSocketOpenStep(s) ==
    /\ SocketOpenStep(s)
    /\ eng' = IF eng.starting /\ client.sock[s].origin = "connect"
              THEN StartContinue(eng) ELSE eng
    /\ UNCHANGED <<call, order, frame>>

\* the handshake of socket s fails, or the socket was closed during it
EngSocketFailStep(s) ==
    /\ client.sock[s].st \in {"connecting", "abort"}
    /\ ClientSends(OnErrorUncaught(Begin, s))
    /\ UNCHANGED engineVars

\* the 30 s connectionTimeout of socket s; start() throws if it awaited it
EngConnTimeoutStep(s) ==
    /\ ConnTimeoutStep(s)
    /\ eng' = IF eng.starting /\ client.sock[s].origin = "connect"
                 /\ ~client.sock[s].settled
              THEN [eng EXCEPT !.starting = FALSE] ELSE eng
    /\ UNCHANGED <<call, order, frame>>

EngineIdle ==
    /\ eng = EngineInit
    /\ call = [i \in Calls |-> NoCall]
    /\ order = <<>>
    /\ frame = "none"

----------------------------------------------------------------------------
(***************************************************************************)
(* JarvisEngine.processBufferedAudio (FallbackChain.ts 625-649) over       *)
(* FallbackChain.processAudio (55-92), for an engine in efficient mode.    *)
(* The method has no caller in the class at 307-747; the class at 769-1125 *)
(* calls its own copy from a 3 s timer (1032-1034).  The steps below are   *)
(* the method as written, from the moment something calls it.  chainPc     *)
(* says which await of processAudio is pending: "transcribing",            *)
(* "completion" or "synthesizing".  The function.calls event of the        *)
(* completion is not followed here.                                        *)
(***************************************************************************)
\* the events of processAudio (58-73, 86) as the log names them
ChainEv(type, arg) == [type |-> type, arg |-> arg]

stageTranscribing == ChainEv("stage", "transcribing")

stageReasoning == ChainEv("stage", "reasoning")

stageSynthesizing == ChainEv("stage", "synthesizing")

\* what the remote call of a stage can reject with: a network error, a
\* rejected API key
StageErrors == {"ECONNRESET", "HTTP 401"}

\* what processAudio emits once transcribeAudio has returned, lines 61-64
afterTranscription == <<ChainEv("transcription", "text"), stageReasoning>>

\* the assistant messages a completion can hold: content with or without
\* tool calls, or tool calls with content null
AssistantMessages ==
    {[content |-> "text", tool_calls |-> FALSE],
     [content |-> "text", tool_calls |-> TRUE],
     [content |-> "null", tool_calls |-> TRUE]}

\* `assistantMessage.content || ''`, line 148
responseText(assistantMessage) ==
    IF assistantMessage.content = "null" THEN "" ELSE assistantMessage.content

\* what generateResponse (157-159) and processAudio (67-70) emit once the
\* completion has returned
afterCompletionBad(assistantMessage) ==
    (IF assistantMessage.tool_calls
         THEN <<ChainEv("function.calls", "calls")>> ELSE <<>>)
        \o <<stageSynthesizing,
              ChainEv("response", responseText(assistantMessage))>>

afterCompletion(assistantMessage) ==
    (IF assistantMessage.tool_calls
         THEN <<ChainEv("function.calls", "calls")>> ELSE <<>>)
        \o <<ChainEv("response", responseText(assistantMessage)),
              stageSynthesizing>>

\* the 'stage' listener, lines 579-584
onStage(e, stage) ==
    IF stage = "transcribing" THEN updateStatus(e, "listening")
    ELSE IF stage = "reasoning" THEN updateStatus(e, "thinking")
    ELSE IF stage = "synthesizing" THEN updateStatus(e, "speaking")
    ELSE e

\* processBufferedAudio up to the await of processAudio, which emits the
\* first stage before its own first await
ProcessBufferedAudioStep ==
    /\ eng.fallbackChain
    /\ eng.currentMode = "efficient"
    /\ chainPc = "idle"
    /\ IF eng.buffered = 0
       THEN /\ eng' = updateStatus(eng, "idle")
            /\ UNCHANGED chainVars
       ELSE /\ eng' = onStage(updateStatus(eng, "thinking"), "transcribing")
            /\ chainPc' = "transcribing"
            /\ emitted' = <<stageTranscribing>>
            /\ UNCHANGED <<conversationHistory, appended>>
    /\ UNCHANGED <<clientVars, call, order, frame, router>>

\* transcribeAudio returned: stage reasoning, generateResponse pushes the
\* user message and awaits the completion
TranscribedStep ==
    /\ chainPc = "transcribing"
    /\ appended < MaxAppends
    /\ eng' = onStage(eng, "reasoning")
    /\ conversationHistory' = Append(conversationHistory, Msg("user", appended + 1))
    /\ appended' = appended + 1
    /\ chainPc' = "completion"
    /\ emitted' = emitted \o afterTranscription
    /\ UNCHANGED <<clientVars, call, order, frame, router>>

\* the completion returned: generateResponse pushes the answer and trims,
\* stage synthesizing, and synthesizeSpeech (182-187) passes the text,
\* whatever it is, to elevenlabs.generate and awaits it
RespondedStep ==
    /\ chainPc = "completion"
    /\ eng' = onStage(eng, "synthesizing")
    /\ conversationHistory' =
           TrimHistory(Append(conversationHistory, Msg("assistant", appended + 1)))
    /\ appended' = appended + 1
    /\ chainPc' = "synthesizing"
    /\ \E assistantMessage \in AssistantMessages :
           emitted' = emitted \o afterCompletion(assistantMessage)
    /\ UNCHANGED <<clientVars, call, order, frame, router>>

\* synthesizeSpeech returned: the 'audio' listener plays it, processAudio
\* computes a cost and returns it, processBufferedAudio drops the returned
\* object, finishes the interaction and empties the buffer
SynthesizedStep ==
    /\ chainPc = "synthesizing"
    /\ eng' = [finishInteraction(playAudio(eng)) EXCEPT !.buffered = 0]
    /\ chainPc' = "idle"
    /\ emitted' = Append(emitted, ChainEv("audio", "bytes"))
    /\ UNCHANGED <<conversationHistory, appended>>
    /\ UNCHANGED <<clientVars, call, order, frame, router>>

\* the pending await of processAudio rejects with error: the catch of
\* processAudio calls emit('error', error) (86) and the call rejects, and the
\* catch of processBufferedAudio sets the status to error
StageRejectStep(error) ==
    /\ chainPc \in {"transcribing", "completion", "synthesizing"}
    /\ eng' = [updateStatus(eng, "error") EXCEPT !.buffered = 0]
    /\ chainPc' = "idle"
    /\ emitted' = Append(emitted, ChainEv("error", error))
    /\ UNCHANGED <<conversationHistory, appended>>
    /\ UNCHANGED <<clientVars, call, order, frame, router>>

StageFailStep == \E error \in StageErrors : StageRejectStep(error)

----------------------------------------------------------------------------
(***************************************************************************)
(* FunctionExecutor, src/unnamed/part_009                                  *)
(*                                                                         *)
(* A string is a sequence of characters, a path a sequence of segment      *)
(* names; ".." is the segment <<".", ".">>.                                 *)
(***************************************************************************)
\* the directory names the model writes paths with: "h", "h2", "e", ".."
SegNames == {<<"h">>, <<"h", "2">>, <<"e">>, <<".", ".">>}

RECURSIVE SeqsUpTo(_, _)
\* the non-empty sequences over S of length at most n
SeqsUpTo(S, n) ==
    IF n = 0 THEN {}
    ELSE LET shorter == SeqsUpTo(S, n - 1)
         IN  {<<x>> : x \in S} \cup shorter
             \cup {Append(q, x) : q \in shorter, x \in S}

\* absolute input paths, such as /h/e or /h2/../e
Paths == SeqsUpTo(SegNames, MaxSegs)

RECURSIVE Resolve(_)
\* path.resolve of an absolute path: each ".." removes the segment before it
Resolve(p) ==
    IF p = <<>> THEN <<>>
    ELSE LET r == Resolve(SubSeq(p, 1, Len(p) - 1))
             x == p[Len(p)]
         IN  IF x = <<".", ".">>
             THEN (IF r = <<>> THEN <<>> ELSE SubSeq(r, 1, Len(r) - 1))
             ELSE Append(r, x)

RECURSIVE Join(_)
\* the segments joined with the separator, a leading one included
Join(p) == IF p = <<>> THEN <<>> ELSE Join(SubSeq(p, 1, Len(p) - 1)) \o <<"/">> \o p[Len(p)]

\* the text of an absolute path
PathStr(p) == IF p = <<>> THEN <<"/">> ELSE Join(p)

\* String.prototype.startsWith
StartsWith(s, pre) == Len(pre) <= Len(s) /\ SubSeq(s, 1, Len(pre)) = pre

\* String.prototype.includes('..')
IncludesDotDot(s) == \E i \in 1..(Len(s) - 1) : s[i] = "." /\ s[i + 1] = "."

\* SECURITY_CONFIG.allowedBasePaths, lines 18-22: the home directory /h
allowedBasePaths == {<< <<"h">> >>}

\* validatePath, lines 219-242: TRUE iff it returns instead of throwing
validatePath(p) ==
    LET resolvedPath == PathStr(Resolve(p))
        isAllowed == \E basePath \in allowedBasePaths :
                         StartsWith(resolvedPath, PathStr(Resolve(basePath)))
    IN  /\ isAllowed
        /\ ~(IncludesDotDot(PathStr(p)) /\ IncludesDotDot(PathStr(Resolve(p))))

\* SECURITY_CONFIG.maxCommandLength, line 70
maxCommandLength == 500

\* a command, by what validateCommand tests of it: its length, whether a
\* dangerous pattern matches, whether it starts with an allowed prefix
Commands == [length : {20, 500, 501}, dangerous : BOOLEAN, prefixed : BOOLEAN]

\* validateCommand, lines 247-270: TRUE iff it returns instead of throwing
validateCommand(c) ==
    /\ ~(c.length > maxCommandLength)
    /\ ~c.dangerous
    /\ c.prefixed

\* a URL, by the protocol and hostname that new URL(url) gives for it
Urls == [protocol : {"http:", "https:", "file:"},
         hostname : {"example.com", "localhost", "127.0.0.1", "10.0.0.5",
                     "192.168.1.1"}]

\* `blockedHosts`, line 286
blockedHosts == {"localhost", "127.0.0.1", "0.0.0.0", "::1"}

\* the hostnames of the model that the pattern of line 292 matches
PrivateRange == {"10.0.0.5", "192.168.1.1"}

\* validateUrl, lines 275-302: TRUE iff it returns instead of throwing
validateUrl(u) ==
    /\ u.protocol \in {"http:", "https:"}
    /\ u.hostname \notin blockedHosts
    /\ u.hostname \notin PrivateRange

\* the keys of `appMap`, lines 324-332
appMap == {"chrome", "firefox", "edge", "vscode", "notepad", "calculator", "explorer"}

\* application names of the model: lower case, no shell metacharacters, so
\* sanitizeForShell and toLowerCase leave them as they are
AppNames == {"chrome", "notepad", "solitaire"}

\* function names: six of the catalog of executeFunction (165-212), and
\* modify_system_settings, which config.ts 47-52 requires confirmation for
\* and which the catalog does not have
Catalog == {"delete_file", "read_file", "execute_command", "open_url",
            "launch_application", "query_time_date"}

FunctionNames == Catalog \cup {"modify_system_settings"}

\* the arguments the model calls each function with
ArgsOf(n) ==
    IF n \in {"delete_file", "read_file"} THEN Paths
    ELSE IF n = "execute_command" THEN Commands
    ELSE IF n = "open_url" THEN Urls
    ELSE IF n = "launch_application" THEN AppNames
    ELSE {"none"}

\* the blocked and the confirmation-required sets the constructor is given
NameSets == {{}} \cup {{n} : n \in FunctionNames}

\* the constructor, lines 88-91, and the field initialisers, 83-86; name,
\* arg, asked, answer, result and effects describe the call of execute in
\* progress: asked is what the confirmation callback was invoked with,
\* answer what it resolved to, effects the file and process operations
\* performed
ExecutorInit(blocked, required) ==
    [pc |-> "idle", blockedFunctions |-> blocked,
     confirmationRequired |-> required, confirmationCallback |-> FALSE,
     name |-> "none", arg |-> "none", asked |-> <<>>, answer |-> "none",
     result |-> "none", effects |-> {}]

\* getConfirmationDescription, lines 150-163
getConfirmationDescription(n, a) ==
    IF n = "delete_file" THEN <<"Delete file: ", a>>
    ELSE IF n = "execute_command" THEN <<"Execute command: ", a>>
    ELSE <<"Execute ", n, " with args: ", a>>

Finish(e, r, fx) == [e EXCEPT !.pc = "done", !.result = r, !.effects = @ \cup fx]

\* executeFunction, lines 165-212, with the function it dispatches to;
\* ioOk is whether the file system or the child process succeeds
executeFunction(e, ioOk) ==
    LET io == IF ioOk THEN "ok" ELSE "Failed"
    IN  IF e.name = "launch_application"
        THEN IF e.arg \notin appMap THEN Finish(e, "AppDenied", {})
             ELSE Finish(e, io, {"spawn"})
        ELSE IF e.name = "execute_command"
        THEN IF ~validateCommand(e.arg) THEN Finish(e, "CommandDenied", {})
             ELSE Finish(e, io, {"exec"})
        ELSE IF e.name = "query_time_date"
        THEN Finish(e, "ok", {})
        ELSE IF e.name = "read_file"
        THEN IF ~validatePath(e.arg) THEN Finish(e, "PathDenied", {})
             ELSE IF ~ioOk THEN Finish(e, "Failed", {"stat"})
             ELSE Finish(e, "ok", {"stat", "readFile"})
        ELSE IF e.name = "delete_file"
        THEN IF ~validatePath(e.arg) THEN Finish(e, "PathDenied", {})
             ELSE IF ~ioOk THEN Finish(e, "Failed", {"stat"})
             ELSE Finish(e, "ok", {"stat", "unlink"})
        ELSE IF e.name = "open_url"
        THEN IF ~validateUrl(e.arg) THEN Finish(e, "UrlDenied", {})
             ELSE Finish(e, io, {"exec"})
        ELSE Finish(e, "UnknownFunction", {})

\* requestConfirmation, lines 137-148, up to the await of the callback
requestConfirmation(e) ==
    IF e.confirmationCallback
    THEN [e EXCEPT !.pc = "confirming",
                   !.asked = Append(@, <<e.name, e.arg,
                                        getConfirmationDescription(e.name, e.arg)>>)]
    ELSE Finish(e, "NotApproved", {})

\* `this.blockedFunctions.has(functionName)`, line 115
IsBlockedBad(e, n) == n \in e.blockedFunctions /\ n \notin e.confirmationRequired

IsBlocked(e, n) == n \in e.blockedFunctions

\* execute(n, a), lines 111-135, up to its first await that is answered
\* from outside
ExecuteStep(n, a, ioOk) ==
    /\ executor.pc = "idle"
    /\ LET e == [executor EXCEPT !.name = n, !.arg = a]
       IN  executor' =
               IF IsBlocked(e, n) THEN Finish(e, "Blocked", {})
               ELSE IF n \in e.confirmationRequired THEN requestConfirmation(e)
               ELSE executeFunction(e, ioOk)

ConfirmReplyStepBad(approved, ioOk) ==
    /\ executor.pc = "confirming"
    /\ executor' = executeFunction(
           [executor EXCEPT !.answer = IF approved THEN "yes" ELSE "no"], ioOk)

\* the confirmation callback resolves, lines 121-135
ConfirmReplyStep(approved, ioOk) ==
    /\ executor.pc = "confirming"
    /\ LET e == [executor EXCEPT !.answer = IF approved THEN "yes" ELSE "no"]
       IN  executor' = IF ~approved THEN Finish(e, "NotApproved", {})
                       ELSE executeFunction(e, ioOk)

\* the confirmation callback rejects: execute rejects with its error
ConfirmThrowStep ==
    /\ executor.pc = "confirming"
    /\ executor' = Finish(executor, "ChannelError", {})

\* setConfirmationCallback, lines 96-98
SetConfirmationCallbackStep ==
    /\ ~executor.confirmationCallback
    /\ executor' = [executor EXCEPT !.confirmationCallback = TRUE]

\* the caller has the outcome of execute; the executor is ready again
ExecuteSettledStep ==
    /\ executor.pc = "done"
    /\ executor' = [executor EXCEPT !.pc = "idle", !.name = "none",
                                    !.arg = "none", !.asked = <<>>,
                                    !.answer = "none",
                                    !.result = "none", !.effects = {}]

ExecutorIdle == executor = ExecutorInit({}, {})

ExecutorAny == \E b \in NameSets, r \in NameSets : executor = ExecutorInit(b, r)

----------------------------------------------------------------------------
(***************************************************************************)
(* CostTracker (AudioCapture.ts 116-294) and AdaptiveRouter                *)
(* (AdaptiveRouter.ts 17-126).  Money is counted in millionths of a        *)
(* dollar, Date.now() in hours.                                            *)
(***************************************************************************)
Modes == {"premium", "efficient"}

\* the argument of route: 'simple', another string, or left out
Hints == {"simple", "complex", "undefined"}

\* the values Date.now() takes: one hour before the peak, its first hour,
\* its last hour, the first hour after it, and the same a day later
Instants == {8, 9, 16, 17, 32, 41}

\* the cost of one recorded entry
EntryCosts == {200000, 300000}

\* RoutingConfig, AdaptiveRouter.ts 10-15
RoutingConfigs ==
    [defaultMode : Modes, peakHoursStart : {9}, peakHoursEnd : {17},
     budgetThreshold : {50, 60}]

\* new Date().getHours()
getHours(t) == t % 24

RECURSIVE SumCost(_)
SumCost(es) == IF es = <<>> THEN 0 ELSE Head(es).cost + SumCost(Tail(es))

\* getMetrics().todayCost: the entries of the last 24 hours
todayCost(tracker, t) ==
    SumCost(SelectSeq(tracker.entries, LAMBDA e : e.timestamp >= t - 24))

\* (todayCost / dailyBudget) * 100; the quotient is rounded down here, which
\* changes no comparison with a whole threshold
getDailyBudgetUsagePercent(tracker, t) ==
    (todayCost(tracker, t) * 100) \div tracker.dailyBudget

estimateCost(mode) == IF mode = "premium" THEN 120000 ELSE 4000

estimateLatency(mode) == IF mode = "premium" THEN 500 ELSE 2000

RoutingDecision(mode, reason) ==
    [mode |-> mode, reason |-> reason,
     estimatedCost |-> estimateCost(mode),
     estimatedLatency |-> estimateLatency(mode)]

NoDecision ==
    [mode |-> "none", reason |-> "none", estimatedCost |-> 0,
     estimatedLatency |-> 0]

\* if (this.forcedMode) return {mode: this.forcedMode, ...}
ForcedDecisionBad(r) == RoutingDecision(r.config.defaultMode, "user_preference")

ForcedDecision(r) == RoutingDecision(r.forcedMode, "user_preference")

\* what reading a property that an object does not hold yields
undefined == -1

\* budgetUsage >= this.config.budgetThreshold; a comparison with undefined
\* is false
OverBudgetBad(r) ==
    /\ r.config.budgetThreshold # undefined
    /\ getDailyBudgetUsagePercent(r.costTracker, r.now) > r.config.budgetThreshold

OverBudget(r) ==
    /\ r.config.budgetThreshold # undefined
    /\ getDailyBudgetUsagePercent(r.costTracker, r.now) >= r.config.budgetThreshold

\* hour >= peakHoursStart && hour < peakHoursEnd
isPeakHours(r) ==
    /\ getHours(r.now) >= r.config.peakHoursStart
    /\ getHours(r.now) < r.config.peakHoursEnd

\* interactionType === 'simple'
SimpleHintBad(r, interactionType) ==
    interactionType = "simple" /\ r.config.defaultMode = "premium"

SimpleHint(r, interactionType) == interactionType = "simple"

route(r, interactionType) ==
    IF r.forcedMode # "null" THEN ForcedDecision(r)
    ELSE IF OverBudget(r) THEN RoutingDecision("efficient", "cost_limit")
    ELSE IF ~isPeakHours(r) THEN RoutingDecision("efficient", "time_of_day")
    ELSE IF SimpleHint(r, interactionType)
         THEN RoutingDecision("efficient", "interaction_type")
    ELSE RoutingDecision(r.config.defaultMode, "time_of_day")

\* new CostTracker(dailyBudget), new AdaptiveRouter(costTracker, config)
RouterInit(config) ==
    [costTracker |-> [entries |-> <<>>, dailyBudget |-> 1000000],
     config |-> config,
     forcedMode |-> "null",
     now |-> 8,
     interactionType |-> "undefined",
     decision |-> NoDecision]

\* route(interactionType): the decision is what the caller receives
RouteStep(interactionType) ==
    router' = [router EXCEPT !.interactionType = interactionType,
                             !.decision = route(router, interactionType)]

SetForcedModeStepBad(mode) ==
    router' = [router EXCEPT !.forcedMode = IF mode = "null" THEN @ ELSE mode]

SetForcedModeStep(mode) ==
    router' = [router EXCEPT !.forcedMode = mode]

\* one of the record... methods: addEntry pushes {timestamp: Date.now(), cost}
RecordCostStep(cost) ==
    /\ Len(router.costTracker.entries) < MaxEntries
    /\ router' = [router EXCEPT !.costTracker.entries =
                      Append(@, [timestamp |-> router.now, cost |-> cost])]

\* time passes
ClockStep(t) ==
    /\ t > router.now
    /\ router' = [router EXCEPT !.now = t]

RouterIdle ==
    router = RouterInit([defaultMode |-> "premium", peakHoursStart |-> 9,
                         peakHoursEnd |-> 17, budgetThreshold |-> 50])

RouterAny == \E c \in RoutingConfigs : router = RouterInit(c)

\* config.routing as loadConfig builds it with no environment overrides of
\* the budgets and peak hours: it holds defaultMode, dailyBudget,
\* monthlyBudget, peakHoursStart and peakHoursEnd, and no budgetThreshold
loadConfigRouting(defaultMode) ==
    [defaultMode |-> defaultMode, peakHoursStart |-> 9, peakHoursEnd |-> 17,
     budgetThreshold |-> undefined]

\* the CostTracker and AdaptiveRouter that the JarvisEngine constructor builds
\* from configManager.getConfig()
RouterOfEngine == \E m \in Modes : router = RouterInit(loadConfigRouting(m))

----------------------------------------------------------------------------
(***************************************************************************)
(* CostTracker: the record methods, getMetrics, the budget queries and     *)
(* clearOldEntries (AudioCapture.ts 116-294)                               *)
(***************************************************************************)
\* PRICING in millionths of a dollar: realtime audio per token, whisper per
\* minute, gpt-4o-mini per hundred tokens, elevenlabs per character
realtimeAudioInput == 100
realtimeAudioOutput == 200
whisper == 6000
gpt4oMiniInput == 15
gpt4oMiniOutput == 60
elevenlabs == 300

\* the arguments given to the record methods; with them every cost is a whole
\* number of millionths
TokenCounts == {1000}
AudioMinutes == {1}
Completions == {<<500, 300>>}
CharacterCounts == {200}

\* clearOldEntries(daysToKeep), 30 when left out
DaysToKeep == {1, 30}

realtimeCost(estimatedTokens) ==
    (estimatedTokens \div 2) * realtimeAudioInput
        + (estimatedTokens \div 2) * realtimeAudioOutput

whisperCost(audioMinutes) == audioMinutes * whisper

gptCost(inputTokens, outputTokens) ==
    (inputTokens * gpt4oMiniInput + outputTokens * gpt4oMiniOutput) \div 100

elevenlabsCost(characters) == characters * elevenlabs

addEntryBad(tracker, entry) ==
    [tracker EXCEPT !.entries = Append(Append(@, entry), entry)]

addEntry(tracker, entry) == [tracker EXCEPT !.entries = Append(@, entry)]

recordRealtimeInteraction(tracker, t, estimatedTokens) ==
    addEntry(tracker, [timestamp |-> t, cost |-> realtimeCost(estimatedTokens)])

recordWhisperTranscription(tracker, t, audioMinutes) ==
    addEntry(tracker, [timestamp |-> t, cost |-> whisperCost(audioMinutes)])

recordGPTCompletion(tracker, t, inputTokens, outputTokens) ==
    addEntry(tracker,
             [timestamp |-> t, cost |-> gptCost(inputTokens, outputTokens)])

recordElevenLabs(tracker, t, characters) ==
    addEntry(tracker, [timestamp |-> t, cost |-> elevenlabsCost(characters)])

\* the three stage methods in turn; totalCost is what it returns
recordFallbackInteraction(tracker, t, audioMinutes, inputTokens, outputTokens, elevenlabsCharacters) ==
    recordElevenLabs(
        recordGPTCompletion(
            recordWhisperTranscription(tracker, t, audioMinutes),
            t, inputTokens, outputTokens),
        t, elevenlabsCharacters)

totalCost(audioMinutes, inputTokens, outputTokens, elevenlabsCharacters) ==
    whisperCost(audioMinutes) + gptCost(inputTokens, outputTokens)
        + elevenlabsCost(elevenlabsCharacters)

\* getMetrics at time t; a month is 30 days
getMetrics(tracker, t) ==
    [totalCost |-> SumCost(tracker.entries),
     todayCost |-> todayCost(tracker, t),
     monthCost |->
         SumCost(SelectSeq(tracker.entries,
                           LAMBDA e : e.timestamp >= t - 30 * 24)),
     interactionCount |-> Len(tracker.entries),
     budgetRemaining |-> tracker.dailyBudget - todayCost(tracker, t)]

isDailyBudgetExceeded(tracker, t) ==
    getMetrics(tracker, t).todayCost >= tracker.dailyBudget

clearOldEntries(tracker, t, daysToKeep) ==
    [tracker EXCEPT !.entries =
         SelectSeq(@, LAMBDA e : e.timestamp >= t - daysToKeep * 24)]

Room(n) == Len(router.costTracker.entries) + n <= MaxRecorded

RecordRealtimeStep(estimatedTokens) ==
    /\ Room(1)
    /\ router' = [router EXCEPT !.costTracker =
                      recordRealtimeInteraction(@, router.now, estimatedTokens)]

RecordWhisperStep(audioMinutes) ==
    /\ Room(1)
    /\ router' = [router EXCEPT !.costTracker =
                      recordWhisperTranscription(@, router.now, audioMinutes)]

RecordGPTStep(inputTokens, outputTokens) ==
    /\ Room(1)
    /\ router' = [router EXCEPT !.costTracker =
                      recordGPTCompletion(@, router.now, inputTokens, outputTokens)]

RecordElevenLabsStep(characters) ==
    /\ Room(1)
    /\ router' = [router EXCEPT !.costTracker =
                      recordElevenLabs(@, router.now, characters)]

RecordFallbackStep(audioMinutes, inputTokens, outputTokens, characters) ==
    /\ Room(3)
    /\ router' = [router EXCEPT !.costTracker =
                      recordFallbackInteraction(@, router.now, audioMinutes,
                                                inputTokens, outputTokens,
                                                characters)]

ClearOldEntriesStep(daysToKeep) ==
    router' = [router EXCEPT !.costTracker =
                   clearOldEntries(@, router.now, daysToKeep)]

\* what the callers of the ledger were given: the number of record calls they
\* made, the sum of the costs those calls returned, the number of entries
\* those calls pushed, and whether clearOldEntries was called
AuditInit == [calls |-> 0, returned |-> 0, appended |-> 0, cleared |-> FALSE]

Audited(cost, n) ==
    audit' = [audit EXCEPT !.calls = @ + 1, !.returned = @ + cost,
                           !.appended = @ + n]

----------------------------------------------------------------------------
(***************************************************************************)
(* Spec: one RealtimeClient whose owner may call connect(), reconnect()    *)
(* and disconnect() at any time.                                           *)
(***************************************************************************)
Connect == ConnectStep /\ UNCHANGED <<chainVars, engineVars, serviceVars>>

Reconnect == ReconnectStep /\ UNCHANGED <<chainVars, engineVars, serviceVars>>

Disconnect == DisconnectStep /\ UNCHANGED <<chainVars, engineVars, serviceVars>>

TimerFire == TimerFireStep /\ UNCHANGED <<chainVars, engineVars, serviceVars>>

LeakedTimerFire == LeakedTimerFireStep /\ UNCHANGED <<chainVars, engineVars, serviceVars>>

SocketOpen == (\E s \in Slots : SocketOpenStep(s)) /\ UNCHANGED <<chainVars, engineVars, serviceVars>>

SocketFail == (\E s \in Slots : SocketFailStep(s)) /\ UNCHANGED <<chainVars, engineVars, serviceVars>>

SocketClose == (\E s \in Slots : SocketCloseStep(s)) /\ UNCHANGED <<chainVars, engineVars, serviceVars>>

ConnTimeout == (\E s \in Slots : ConnTimeoutStep(s)) /\ UNCHANGED <<chainVars, engineVars, serviceVars>>

Init ==
    /\ ClientIdle
    /\ ChainIdle
    /\ EngineIdle
    /\ ExecutorIdle
    /\ RouterIdle
    /\ forcing = "never"
    /\ audit = AuditInit
    /\ stopLog = "none"
    /\ nudges = NoNudges

Next ==
    \/ Connect
    \/ Reconnect
    \/ Disconnect
    \/ TimerFire
    \/ LeakedTimerFire
    \/ SocketOpen
    \/ SocketFail
    \/ SocketClose
    \/ ConnTimeout

Spec == Init /\ [][Next]_vars

(***************************************************************************)
(* SpecSession: one session of a client whose owner listens to 'error':   *)
(* connect() once on a new client, then at most one disconnect(), the      *)
(* calls that JarvisEngine makes (initializeClients, 512-520; stop, 479).  *)
(***************************************************************************)
SessionConnect ==
    /\ [client EXCEPT !.out = <<>>] = ClientInit
    /\ ~suppressed
    /\ ConnectStep
    /\ UNCHANGED <<chainVars, engineVars, serviceVars>>

SessionDisconnect == DisconnectStep /\ UNCHANGED <<chainVars, engineVars, serviceVars>>

SessionTimerFire == TimerFireStep /\ UNCHANGED <<chainVars, engineVars, serviceVars>>

SessionOpen == (\E s \in Slots : SocketOpenStep(s)) /\ UNCHANGED <<chainVars, engineVars, serviceVars>>

SessionFail == (\E s \in Slots : SocketFailStep(s)) /\ UNCHANGED <<chainVars, engineVars, serviceVars>>

SessionClose == (\E s \in Slots : SocketCloseStep(s)) /\ UNCHANGED <<chainVars, engineVars, serviceVars>>

SessionTimeout == (\E s \in Slots : ConnTimeoutStep(s)) /\ UNCHANGED <<chainVars, engineVars, serviceVars>>

NextSession ==
    \/ SessionConnect
    \/ SessionDisconnect
    \/ SessionTimerFire
    \/ SessionOpen
    \/ SessionFail
    \/ SessionClose
    \/ SessionTimeout

SpecSession == Init /\ [][NextSession]_vars

(***************************************************************************)
(* SpecChain: one FallbackChain through any sequence of reasoning stages   *)
(***************************************************************************)
GenerateBegin == GenerateBeginStep /\ UNCHANGED <<clientVars, engineVars, serviceVars>>

CompletionOk == CompletionOkStep /\ UNCHANGED <<clientVars, engineVars, serviceVars>>

CompletionFail == CompletionFailStep /\ UNCHANGED <<clientVars, engineVars, serviceVars>>

ClearHistory == ClearHistoryStep /\ UNCHANGED <<clientVars, engineVars, serviceVars>>

InitChain ==
    /\ ClientIdle
    /\ ChainInit
    /\ EngineIdle
    /\ ExecutorIdle
    /\ RouterIdle
    /\ forcing = "never"
    /\ audit = AuditInit
    /\ stopLog = "none"
    /\ nudges = NoNudges

NextChain ==
    \/ GenerateBegin
    \/ CompletionOk
    \/ CompletionFail
    \/ ClearHistory

SpecChain == InitChain /\ [][NextChain]_vars

----------------------------------------------------------------------------
(***************************************************************************)
(* SpecEngine: one JarvisEngine, driven through start(), stop() and        *)
(* triggerWakeWord() as main.ts drives it, with its RealtimeClient, its    *)
(* timers and the microphone.  start() makes a new RealtimeClient only     *)
(* once the previous one has closed its socket.  Tool calls, which         *)
(* neither read nor write the status, the timers or the audio buffer, are  *)
(* left to SpecTools.                                                      *)
(***************************************************************************)
StartPremium == StartPremiumStep /\ UNCHANGED <<chainVars, serviceVars>>

StartEfficient == StartEfficientStep /\ UNCHANGED <<chainVars, serviceVars>>

Stop == StopStep /\ UNCHANGED <<chainVars, serviceVars>>

TriggerWakeWord == TriggerWakeWordStep /\ UNCHANGED <<chainVars, serviceVars>>

GreetTimerFire == GreetTimerFireStep /\ UNCHANGED <<chainVars, serviceVars>>

SilenceTimerFire == SilenceTimerFireStep /\ UNCHANGED <<chainVars, serviceVars>>

SpeechStarted == SpeechStartedStep /\ UNCHANGED <<chainVars, serviceVars>>

SpeechStopped == SpeechStoppedStep /\ UNCHANGED <<chainVars, serviceVars>>

ResponseDone == ResponseDoneStep /\ UNCHANGED <<chainVars, serviceVars>>

AudioDelta == AudioDeltaStep /\ UNCHANGED <<chainVars, serviceVars>>

AudioFrame == AudioFrameStep /\ UNCHANGED <<chainVars, serviceVars>>

CaptureError == CaptureErrorStep /\ UNCHANGED <<chainVars, serviceVars>>

EngSocketOpen == (\E s \in Slots : EngSocketOpenStep(s)) /\ UNCHANGED <<chainVars, serviceVars>>

EngSocketFail == (\E s \in Slots : EngSocketFailStep(s)) /\ UNCHANGED <<chainVars, serviceVars>>

EngSocketClose ==
    (\E s \in Slots : SocketCloseStep(s)) /\ UNCHANGED <<chainVars, engineVars, serviceVars>>

EngConnTimeout == (\E s \in Slots : EngConnTimeoutStep(s)) /\ UNCHANGED <<chainVars, serviceVars>>

EngTimerFire == TimerFireStep /\ UNCHANGED <<chainVars, engineVars, serviceVars>>

NextEngine ==
    \/ StartPremium
    \/ StartEfficient
    \/ Stop
    \/ TriggerWakeWord
    \/ GreetTimerFire
    \/ SilenceTimerFire
    \/ SpeechStarted
    \/ SpeechStopped
    \/ ResponseDone
    \/ AudioDelta
    \/ AudioFrame
    \/ CaptureError
    \/ EngSocketOpen
    \/ EngSocketFail
    \/ EngSocketClose
    \/ EngConnTimeout
    \/ EngTimerFire

SpecEngine == Init /\ [][NextEngine]_vars

(***************************************************************************)
(* SpecLifecycle: the engine of SpecEngine with stop() callable at any     *)
(* time, the early return of a stop() on an engine that is not running     *)
(* included.  stopLog says what the last thing that happened was: "none"   *)
(* if it was not a call of stop(), "stopped" for a stop() that ran to its  *)
(* end, "noop" for one that returned early, and "twice" or "again" for one *)
(* that directly followed another stop() and returned early or ran to its  *)
(* end.                                                                    *)
(***************************************************************************)
restOfLife == <<chainVars, executor, router, forcing, audit, nudges>>

Later == stopLog' = "none"

LifeStartPremium == StartPremiumStep /\ Later /\ UNCHANGED restOfLife

LifeStartEfficient == StartEfficientStep /\ Later /\ UNCHANGED restOfLife

LifeStop ==
    /\ StopCallStep
    /\ stopLog' = IF stopLog = "none"
                  THEN (IF StopReturnsEarly(eng) THEN "noop" ELSE "stopped")
                  ELSE (IF StopReturnsEarly(eng) THEN "twice" ELSE "again")
    /\ UNCHANGED restOfLife

LifeTriggerWakeWord == TriggerWakeWordStep /\ Later /\ UNCHANGED restOfLife

LifeGreetTimerFire == GreetTimerFireStep /\ Later /\ UNCHANGED restOfLife

LifeSilenceTimerFire == SilenceTimerFireStep /\ Later /\ UNCHANGED restOfLife

LifeSpeechStarted == SpeechStartedStep /\ Later /\ UNCHANGED restOfLife

LifeSpeechStopped == SpeechStoppedStep /\ Later /\ UNCHANGED restOfLife

LifeResponseDone == ResponseDoneStep /\ Later /\ UNCHANGED restOfLife

LifeAudioDelta == AudioDeltaStep /\ Later /\ UNCHANGED restOfLife

LifeAudioFrame == AudioFrameStep /\ Later /\ UNCHANGED restOfLife

LifeCaptureError == CaptureErrorStep /\ Later /\ UNCHANGED restOfLife

LifeSocketOpen ==
    (\E s \in Slots : EngSocketOpenStep(s)) /\ Later /\ UNCHANGED restOfLife

LifeSocketFail ==
    (\E s \in Slots : EngSocketFailStep(s)) /\ Later /\ UNCHANGED restOfLife

LifeSocketClose ==
    /\ \E s \in Slots : SocketCloseStep(s)
    /\ Later
    /\ UNCHANGED <<engineVars, restOfLife>>

LifeConnTimeout ==
    (\E s \in Slots : EngConnTimeoutStep(s)) /\ Later /\ UNCHANGED restOfLife

LifeTimerFire == TimerFireStep /\ Later /\ UNCHANGED <<engineVars, restOfLife>>

NextLifecycle ==
    \/ LifeStartPremium
    \/ LifeStartEfficient
    \/ LifeStop
    \/ LifeTriggerWakeWord
    \/ LifeGreetTimerFire
    \/ LifeSilenceTimerFire
    \/ LifeSpeechStarted
    \/ LifeSpeechStopped
    \/ LifeResponseDone
    \/ LifeAudioDelta
    \/ LifeAudioFrame
    \/ LifeCaptureError
    \/ LifeSocketOpen
    \/ LifeSocketFail
    \/ LifeSocketClose
    \/ LifeConnTimeout
    \/ LifeTimerFire

SpecLifecycle == Init /\ [][NextLifecycle]_vars

----------------------------------------------------------------------------
(***************************************************************************)
(* SpecTools: the tool calls of one run of the engine in premium mode,     *)
(* from start() to stop(), with the realtime session opening, dropping     *)
(* and reconnecting underneath.                                            *)
(***************************************************************************)
ToolsStart == StartPremiumStep /\ UNCHANGED <<chainVars, serviceVars>>

ToolsStop == StopStep /\ UNCHANGED <<chainVars, serviceVars>>

ToolsSocketOpen == (\E s \in Slots : EngSocketOpenStep(s)) /\ UNCHANGED <<chainVars, serviceVars>>

ToolsSocketFail == (\E s \in Slots : EngSocketFailStep(s)) /\ UNCHANGED <<chainVars, serviceVars>>

ToolsSocketClose ==
    (\E s \in Slots : SocketCloseStep(s)) /\ UNCHANGED <<chainVars, engineVars, serviceVars>>

ToolsTimerFire == TimerFireStep /\ UNCHANGED <<chainVars, engineVars, serviceVars>>

FunctionCall == FunctionCallStep /\ UNCHANGED <<chainVars, serviceVars>>

ExecReturn == (\E i \in Calls : ExecDoneStep(i, "returned")) /\ UNCHANGED <<chainVars, serviceVars>>

ExecThrow == (\E i \in Calls : ExecDoneStep(i, "threw")) /\ UNCHANGED <<chainVars, serviceVars>>

NextTools ==
    \/ ToolsStart
    \/ ToolsStop
    \/ ToolsSocketOpen
    \/ ToolsSocketFail
    \/ ToolsSocketClose
    \/ ToolsTimerFire
    \/ FunctionCall
    \/ ExecReturn
    \/ ExecThrow

SpecTools == Init /\ [][NextTools]_vars

----------------------------------------------------------------------------
(***************************************************************************)
(* SpecExecutor: one FunctionExecutor, constructed with any blocked set    *)
(* and any confirmation-required set of at most one name, and called one   *)
(* execute at a time.                                                      *)
(***************************************************************************)
restOfExecutor == <<clientVars, chainVars, engineVars, router, forcing, audit, stopLog, nudges>>

Execute ==
    /\ \E n \in FunctionNames : \E a \in ArgsOf(n) : \E ioOk \in BOOLEAN :
           ExecuteStep(n, a, ioOk)
    /\ UNCHANGED restOfExecutor

ConfirmReply ==
    /\ \E approved \in BOOLEAN, ioOk \in BOOLEAN : ConfirmReplyStep(approved, ioOk)
    /\ UNCHANGED restOfExecutor

ConfirmThrow == ConfirmThrowStep /\ UNCHANGED restOfExecutor

SetConfirmationCallback == SetConfirmationCallbackStep /\ UNCHANGED restOfExecutor

ExecuteSettled == ExecuteSettledStep /\ UNCHANGED restOfExecutor

InitExecutor ==
    /\ ClientIdle
    /\ ChainIdle
    /\ EngineIdle
    /\ ExecutorAny
    /\ RouterIdle
    /\ forcing = "never"
    /\ audit = AuditInit
    /\ stopLog = "none"
    /\ nudges = NoNudges

NextExecutor ==
    \/ Execute
    \/ ConfirmReply
    \/ ConfirmThrow
    \/ SetConfirmationCallback
    \/ ExecuteSettled

SpecExecutor == InitExecutor /\ [][NextExecutor]_vars

----------------------------------------------------------------------------
(***************************************************************************)
(* SpecRouter: one AdaptiveRouter over one CostTracker, built with any     *)
(* routing configuration; costs are recorded, the clock advances, the      *)
(* forced mode is set and cleared, and route is called, in any order.      *)
(***************************************************************************)
restOfRouter == <<clientVars, chainVars, engineVars, executor, audit, stopLog, nudges>>

\* forcing: "never" until a mode is forced, "set" while the last call forced
\* one, "cleared" once setForcedMode(null) followed, "routed" once route was
\* called after that
Route ==
    /\ \E i \in Hints : RouteStep(i)
    /\ forcing' = IF forcing = "cleared" THEN "routed" ELSE forcing
    /\ UNCHANGED restOfRouter

SetForcedMode ==
    /\ \E m \in Modes \cup {"null"} :
           /\ SetForcedModeStep(m)
           /\ forcing' = IF m # "null" THEN "set"
                          ELSE IF forcing = "never" THEN "never" ELSE "cleared"
    /\ UNCHANGED restOfRouter

RecordCost ==
    (\E c \in EntryCosts : RecordCostStep(c)) /\ UNCHANGED <<restOfRouter, forcing>>

Clock == (\E t \in Instants : ClockStep(t)) /\ UNCHANGED <<restOfRouter, forcing>>

InitRouter ==
    /\ ClientIdle
    /\ ChainIdle
    /\ EngineIdle
    /\ ExecutorIdle
    /\ RouterAny
    /\ forcing = "never"
    /\ audit = AuditInit
    /\ stopLog = "none"
    /\ nudges = NoNudges

NextRouter ==
    \/ Route
    \/ SetForcedMode
    \/ RecordCost
    \/ Clock

SpecRouter == InitRouter /\ [][NextRouter]_vars

\* SpecEngineRouter: the same operations on the router that the JarvisEngine
\* builds from the loaded configuration
InitEngineRouter ==
    /\ ClientIdle
    /\ ChainIdle
    /\ EngineIdle
    /\ ExecutorIdle
    /\ RouterOfEngine
    /\ forcing = "never"
    /\ audit = AuditInit
    /\ stopLog = "none"
    /\ nudges = NoNudges

SpecEngineRouter == InitEngineRouter /\ [][NextRouter]_vars

(***************************************************************************)
(* SpecLedger: one CostTracker on which the record methods and             *)
(* clearOldEntries are called in any order while time passes; getMetrics   *)
(* and the budget queries read it and change nothing.                      *)
(***************************************************************************)
restOfLedger == <<clientVars, chainVars, engineVars, executor, forcing, stopLog, nudges>>

RecordRealtime ==
    /\ \E n \in TokenCounts :
           RecordRealtimeStep(n) /\ Audited(realtimeCost(n), 1)
    /\ UNCHANGED restOfLedger

RecordWhisper ==
    /\ \E m \in AudioMinutes :
           RecordWhisperStep(m) /\ Audited(whisperCost(m), 1)
    /\ UNCHANGED restOfLedger

RecordGPT ==
    /\ \E c \in Completions :
           RecordGPTStep(c[1], c[2]) /\ Audited(gptCost(c[1], c[2]), 1)
    /\ UNCHANGED restOfLedger

RecordElevenLabs ==
    /\ \E n \in CharacterCounts :
           RecordElevenLabsStep(n) /\ Audited(elevenlabsCost(n), 1)
    /\ UNCHANGED restOfLedger

RecordFallback ==
    /\ \E m \in AudioMinutes, c \in Completions, n \in CharacterCounts :
           /\ RecordFallbackStep(m, c[1], c[2], n)
           /\ Audited(totalCost(m, c[1], c[2], n), 3)
    /\ UNCHANGED restOfLedger

ClearOldEntries ==
    /\ \E d \in DaysToKeep : ClearOldEntriesStep(d)
    /\ audit' = [audit EXCEPT !.cleared = TRUE]
    /\ UNCHANGED restOfLedger

LedgerClock ==
    (\E t \in Instants : ClockStep(t)) /\ UNCHANGED <<restOfLedger, audit>>

NextLedger ==
    \/ RecordRealtime
    \/ RecordWhisper
    \/ RecordGPT
    \/ RecordElevenLabs
    \/ RecordFallback
    \/ ClearOldEntries
    \/ LedgerClock

SpecLedger == Init /\ [][NextLedger]_vars

(***************************************************************************)
(* SpecUtterance: a JarvisEngine started in efficient mode, its audio      *)
(* frames, its greeting timer, stop(), and processBufferedAudio called     *)
(* whenever no run of the chain is pending.                                *)
(***************************************************************************)
restOfUtterance == <<executor, forcing, audit, stopLog, nudges>>

UttStart ==
    StartEfficientStep /\ UNCHANGED <<chainVars, router, restOfUtterance>>

UttStop == StopStep /\ UNCHANGED <<chainVars, router, restOfUtterance>>

UttAudioFrame ==
    AudioFrameStep /\ UNCHANGED <<chainVars, router, restOfUtterance>>

UttGreetTimerFire ==
    GreetTimerFireStep /\ UNCHANGED <<chainVars, router, restOfUtterance>>

UttCaptureError ==
    CaptureErrorStep /\ UNCHANGED <<chainVars, router, restOfUtterance>>

ProcessBufferedAudio == ProcessBufferedAudioStep /\ UNCHANGED restOfUtterance

Transcribed == TranscribedStep /\ UNCHANGED restOfUtterance

Responded == RespondedStep /\ UNCHANGED restOfUtterance

Synthesized == SynthesizedStep /\ UNCHANGED restOfUtterance

StageFail == StageFailStep /\ UNCHANGED restOfUtterance

NextUtterance ==
    \/ UttStart
    \/ UttStop
    \/ UttAudioFrame
    \/ UttGreetTimerFire
    \/ UttCaptureError
    \/ ProcessBufferedAudio
    \/ Transcribed
    \/ Responded
    \/ Synthesized
    \/ StageFail

SpecUtterance == InitEngineRouter /\ [][NextUtterance]_vars

----------------------------------------------------------------------------
HasEv(t) == \E i \in 1..Len(client.out) : client.out[i].type = t

(***************************************************************************)
(* Claims about the JarvisEngine                                           *)
(***************************************************************************)
\* C1: every tool call that handleFunctionCall has finished, and that stop()
\* did not cut, had exactly one result sent to the backend: the success
\* payload if the executor returned, an error payload if it threw or denied
C1_ExactlyOneResult ==
    \A i \in Calls :
        call[i].st = "done" =>
            call[i].payload = (IF call[i].outcome = "returned" THEN "result"
                               ELSE "error")

\* C2: tool calls run one at a time in emit order: a call has started only
\* if every earlier call is done and its result was sent, and the results
\* reach the backend in emit order
C2_OneAtATimeInOrder ==
    /\ \A i \in Calls : \A j \in 1..(i - 1) :
           call[i].st # "none" =>
               \/ call[j].st = "done" /\ call[j].payload # "none"
               \/ call[j].st = "cut"
    /\ \A m \in 1..Len(order) : \A n \in (m + 1)..Len(order) : order[m] < order[n]

AllowedStatusChanges ==
    {<<"idle", "listening">>, <<"listening", "thinking">>,
     <<"thinking", "executing">>, <<"executing", "thinking">>,
     <<"thinking", "speaking">>, <<"speaking", "idle">>,
     <<"error", "idle">>}
    \cup {<<a, "error">> : a \in {"idle", "listening", "thinking", "executing",
                                  "speaking"}}

\* C4: every change of the status is one of the listed transitions
C4_StatusTransitions ==
    [][eng'.status # eng.status =>
          <<eng.status, eng'.status>> \in AllowedStatusChanges]_vars

(***************************************************************************)
(* Claims about the FunctionExecutor                                       *)
(***************************************************************************)
\* the call in progress is of a confirmation-required function that is not
\* blocked
NeedsConfirmation ==
    /\ executor.name \in executor.confirmationRequired
    /\ executor.name \notin executor.blockedFunctions

\* C12: for a confirmation-required function, a side effect is performed
\* only if the confirmation callback was invoked exactly once, with the
\* name, the arguments and the description, and resolved to true; with no
\* callback registered, or when it resolves to false, execute fails with
\* the not-approved error and performs no side effect
C12_EffectOnlyIfApproved ==
    NeedsConfirmation =>
        /\ Len(executor.asked) <= 1
        /\ (executor.effects # {} \/ executor.result = "ok") =>
               /\ executor.asked =
                      << <<executor.name, executor.arg,
                           getConfirmationDescription(executor.name, executor.arg)>> >>
               /\ executor.answer = "yes"
        /\ (executor.pc = "done" /\ (executor.asked = <<>> \/ executor.answer = "no")) =>
               /\ executor.result = "NotApproved"
               /\ executor.effects = {}

C12_Witness ==
    /\ NeedsConfirmation
    /\ executor.name = "delete_file"
    /\ executor.answer = "yes"
    /\ "unlink" \in executor.effects

\* C13: a call of a blocked function fails with the blocked error, without
\* invoking the confirmation callback and without any side effect
C13_BlockedAlwaysFails ==
    (executor.pc # "idle" /\ executor.name \in executor.blockedFunctions) =>
        /\ executor.pc = "done"
        /\ executor.result = "Blocked"
        /\ executor.asked = <<>>
        /\ executor.effects = {}

C13_Witness ==
    /\ executor.name \in executor.blockedFunctions
    /\ executor.name \in Catalog
    /\ executor.name \in executor.confirmationRequired
    /\ executor.confirmationCallback
    /\ executor.result = "Blocked"

\* C14: a call of a name that is not in the catalog and not blocked fails
\* with the unknown-function error before the confirmation callback is
\* invoked, also when the name is in the confirmation-required set
C14_UnknownBeforeConfirmation ==
    (/\ executor.pc # "idle"
     /\ executor.name \notin Catalog
     /\ executor.name \notin executor.blockedFunctions) =>
        /\ executor.pc = "done"
        /\ executor.result = "UnknownFunction"
        /\ executor.asked = <<>>

\* the error that execute raises when the validation of function n fails
DenialOf(n) ==
    IF n \in {"delete_file", "read_file"} THEN "PathDenied"
    ELSE IF n = "execute_command" THEN "CommandDenied"
    ELSE IF n = "open_url" THEN "UrlDenied"
    ELSE "AppDenied"

\* argument a of function n does not pass the validation of its function
FailsValidation(n, a) ==
    IF n \in {"delete_file", "read_file"} THEN ~validatePath(a)
    ELSE IF n = "execute_command" THEN ~validateCommand(a)
    ELSE IF n = "open_url" THEN ~validateUrl(a)
    ELSE IF n = "launch_application" THEN a \notin appMap
    ELSE FALSE

\* C15: the gates run in the order policy, validation, confirmation: a call
\* of a confirmation-required function whose arguments fail validation
\* fails with the validation error and the callback is never invoked for it
C15_ValidationBeforeConfirmation ==
    (/\ executor.pc # "idle"
     /\ NeedsConfirmation
     /\ executor.name \in Catalog
     /\ FailsValidation(executor.name, executor.arg)) =>
        /\ executor.pc = "done"
        /\ executor.result = DenialOf(executor.name)
        /\ executor.asked = <<>>

\* path p, resolved, is one of the allowed base directories or lies in one
InsideAllowedBase(p) ==
    \E basePath \in allowedBasePaths :
        /\ Len(Resolve(basePath)) <= Len(Resolve(p))
        /\ SubSeq(Resolve(p), 1, Len(Resolve(basePath))) = Resolve(basePath)

\* argument a of function n fails the safety check that C16 names for it
UnsafeArgument(n, a) ==
    IF n \in {"delete_file", "read_file"} THEN ~InsideAllowedBase(a)
    ELSE IF n = "execute_command"
    THEN a.length > 500 \/ a.dangerous \/ ~a.prefixed
    ELSE IF n = "open_url"
    THEN \/ a.protocol \notin {"http:", "https:"}
         \/ a.hostname \in {"localhost", "127.0.0.1", "10.0.0.5", "192.168.1.1"}
    ELSE IF n = "launch_application" THEN a \notin appMap
    ELSE FALSE

\* C16: a call whose argument fails its safety check fails with the denial
\* error of that check, and no file is read or written and no process is
\* spawned (for functions that are neither blocked nor confirmation-required,
\* whose calls reach the check)
C16_UnsafeArgumentDenied ==
    (/\ executor.pc = "done"
     /\ executor.name \in Catalog
     /\ executor.name \notin executor.blockedFunctions
     /\ executor.name \notin executor.confirmationRequired
     /\ UnsafeArgument(executor.name, executor.arg)) =>
        /\ executor.result = DenialOf(executor.name)
        /\ executor.effects \cap {"readFile", "unlink", "exec", "spawn"} = {}

(***************************************************************************)
(* Claims about the RealtimeClient                                         *)
(***************************************************************************)
Reconnectings == {i \in 1..Len(client.out) : client.out[i].type = "reconnecting"}

\* C5: the reconnection attempt counter never exceeds maxAttempts, and no
\* more than maxAttempts reconnection attempts are scheduled between two
\* resets (a socket opening, or reconnect()).
C5_AttemptsBounded ==
    /\ client.reconnectAttempts <= maxAttempts
    /\ sched <= maxAttempts

C5_Witness ==
    /\ client.reconnectAttempts = maxAttempts
    /\ sched = maxAttempts
    /\ client.reconnectTimeout

\* C6: as long as disconnect(true) is the last lifecycle call, no step of
\* the client emits reconnecting or creates a socket.
C6_SuppressedStaysQuiet ==
    suppressed => ~HasEv("reconnecting") /\ ~HasEv("ws.new")

C8_ReconnectedCarriesAttempt ==
    [][\A i \in 1..Len(client'.out) :
          client'.out[i].type = "reconnected" =>
              /\ sched >= 1
              /\ client'.out[i].attempt = sched
              /\ \E j \in 1..(i - 1) : client'.out[j].type = "send.session.update"]_vars

\* C9: the k-th reconnecting event of an outage announces the delay
\* 1000, 2000, 4000, 8000, 16000 for k = 1..5, and the delays of one outage
\* add up to at most maxDelay * maxAttempts.
DelayTable == <<1000, 2000, 4000, 8000, 16000>>

C9_BackoffDelays ==
    /\ \A i \in Reconnectings :
          /\ client.out[i].attempt = sched
          /\ sched \in 1..maxAttempts
          /\ client.out[i].delay = DelayTable[sched]
    /\ totalWait <= maxDelayMs * maxAttempts

C9_Witness ==
    \E i \in Reconnectings :
        client.out[i].attempt = maxAttempts /\ client.out[i].delay = 16000

(***************************************************************************)
(* Claims about the FallbackChain                                          *)
(***************************************************************************)
\* C10: whenever no reasoning stage is running, the history holds at most
\* 11 messages.
C10_HistoryAtMost11 ==
    chainPc = "idle" => Len(conversationHistory) <= 11

\* what C11 expects of a history h: the system message, if any, then the
\* last 10 of the other messages in their order
IsSystem(m) == m.role = "system"

IsNonSystem(m) == m.role # "system"

KeepsLastTen(h) == SelectSeq(h, IsSystem) \o SliceLast(SelectSeq(h, IsNonSystem), 10)

\* C11: a successful reasoning stage leaves the system message, if any,
\* followed by the most recent min(10, n) non-system messages in their
\* order: of the history with the reply appended, only the oldest
\* non-system messages beyond ten are dropped
C11_TrimKeepsLastTen ==
    [][CompletionOk =>
          conversationHistory' =
              KeepsLastTen(Append(conversationHistory,
                                  Msg("assistant", appended + 1)))]_vars

----------------------------------------------------------------------------
(***************************************************************************)
(* AdaptiveRouter claims                                                   *)
(***************************************************************************)
BudgetUsage == getDailyBudgetUsagePercent(router.costTracker, router.now)

Hour == getHours(router.now)

Returned(mode, reason) ==
    router'.decision.mode = mode /\ router'.decision.reason = reason

C18_ForcedModeWins ==
    [][\A i \in Hints :
          (RouteStep(i) /\ router.forcedMode # "null")
          => Returned(router.forcedMode, "user_preference")]_vars

\* premium was forced and returned although the budget is used up, the hour
\* is off-peak and the hint is simple
C18_Witness ==
    /\ router.decision = RoutingDecision("premium", "user_preference")
    /\ router.forcedMode = "premium"
    /\ BudgetUsage >= router.config.budgetThreshold
    /\ Hour = 17
    /\ router.interactionType = "simple"
    /\ router.config.defaultMode = "efficient"

\* C19: with no forced mode and the usage below the threshold, a call of route
\* returns efficient with reason time_of_day exactly when the hour is before
\* peakHoursStart or at or after peakHoursEnd, for every hint.
C19_TimeOfDayExactlyOffPeak ==
    [][\A i \in Hints :
          (/\ RouteStep(i)
           /\ router.forcedMode = "null"
           /\ BudgetUsage < router.config.budgetThreshold)
          => (Returned("efficient", "time_of_day")
                <=> (\/ Hour < router.config.peakHoursStart
                     \/ Hour >= router.config.peakHoursEnd))]_vars

\* C20: with no forced mode, the usage below the threshold and the hour inside
\* the peak hours, route('simple') returns efficient with reason
\* interaction_type, whatever the default mode.
C20_SimpleHintInPeak ==
    [][(/\ RouteStep("simple")
        /\ router.forcedMode = "null"
        /\ BudgetUsage < router.config.budgetThreshold
        /\ Hour >= router.config.peakHoursStart
        /\ Hour < router.config.peakHoursEnd)
       => Returned("efficient", "interaction_type")]_vars

\* route('simple') answered interaction_type in the last peak hour of a router
\* whose default mode is efficient, with part of the budget used
C20_Witness ==
    /\ router.decision = RoutingDecision("efficient", "interaction_type")
    /\ router.interactionType = "simple"
    /\ router.forcedMode = "null"
    /\ router.config.defaultMode = "efficient"
    /\ BudgetUsage > 0
    /\ BudgetUsage < router.config.budgetThreshold
    /\ Hour = 16

\* C21: when no earlier rule applies (no forced mode, usage below the
\* threshold, hour inside the peak hours, hint not simple), route returns the
\* configured default mode with reason default.
C21_DefaultReason ==
    [][\A i \in Hints \ {"simple"} :
          (/\ RouteStep(i)
           /\ router.forcedMode = "null"
           /\ BudgetUsage < router.config.budgetThreshold
           /\ Hour >= router.config.peakHoursStart
           /\ Hour < router.config.peakHoursEnd)
          => Returned(router.config.defaultMode, "default")]_vars

\* the same ledger, clock and configuration in a router on which
\* setForcedMode was never called
NeverForced(r) ==
    [RouterInit(r.config) EXCEPT !.costTracker = r.costTracker, !.now = r.now]

\* C22: once setForcedMode(m) was followed by setForcedMode(null), every call
\* of route returns the decision that a router on which no mode was ever
\* forced returns for the same ledger, hour and hint, and its reason is not
\* user_preference.
C22_ClearedForcedMode ==
    [][\A i \in Hints :
          (RouteStep(i) /\ forcing \in {"cleared", "routed"})
          => /\ router'.decision = route(NeverForced(router), i)
             /\ router'.decision.reason # "user_preference"]_vars

\* route answered cost_limit after a forced mode was set and cleared
C22_Witness ==
    /\ forcing = "routed"
    /\ router.forcedMode = "null"
    /\ router.decision = RoutingDecision("efficient", "cost_limit")
    /\ router.config.defaultMode = "premium"
    /\ Hour = 16

\* C23: in the router that the engine builds from the default configuration,
\* every call of route made with no forced mode while today's recorded cost is
\* at least half of the daily budget returns efficient with reason cost_limit.
C23_EngineThresholdFifty ==
    [][\A i \in Hints :
          (/\ RouteStep(i)
           /\ router.forcedMode = "null"
           /\ 2 * todayCost(router.costTracker, router.now)
                  >= router.costTracker.dailyBudget)
          => Returned("efficient", "cost_limit")]_vars

----------------------------------------------------------------------------
(***************************************************************************)
(* CostTracker claims                                                      *)
(***************************************************************************)
Reported == getMetrics(router.costTracker, router.now)

C25_TotalNeverDecreases ==
    [][getMetrics(router'.costTracker, router'.now).totalCost
           >= Reported.totalCost]_vars

----------------------------------------------------------------------------
(***************************************************************************)
(* Engine claims, continued                                                *)
(***************************************************************************)
\* C26: every run of the chain on an utterance that the engine processes to
\* completion in efficient mode leaves three more entries in the cost ledger.
C26_ThreeEntriesPerUtterance ==
    [][Synthesized =>
          Len(router'.costTracker.entries)
              = Len(router.costTracker.entries) + 3]_vars

\* the events a call of stop() emitted, by what stopLog says of it
StopEmitted(log) ==
    IF log \in {"stopped", "again"} THEN {"status", "stopped"} ELSE {}

\* C27: a stop() that directly follows another stop() changes nothing in the
\* engine, its client and its tool calls, and emits neither a status nor a
\* stopped event, so that two calls in a row end in the state and with the
\* events of the first.
C27_StopIdempotent ==
    [][(LifeStop /\ stopLog # "none")
          => /\ UNCHANGED <<clientVars, engineVars>>
             /\ StopEmitted(stopLog') = {}]_vars

\* a stop() that directly followed another stop() returned early on a
\* stopped premium engine whose client a stop() had disconnected on purpose
C27_Witness ==
    /\ stopLog = "twice"
    /\ eng.realtimeClient
    /\ ~eng.isRunning
    /\ eng.status = "idle"
    /\ suppressed

\* C28: when a stop() that ran to its end has returned, no greeting,
\* idle-nudge or reconnect timer is pending and the status is idle, and what
\* happens next leaves the status idle unless it is a call of start().
C28_StoppedStaysIdle ==
    [][stopLog = "stopped" =>
          /\ eng.status = "idle"
          /\ eng.greetTimers = 0
          /\ eng.silenceTimer = 0
          /\ ~client.reconnectTimeout
          /\ client.leaked = 0
          /\ (eng'.status = "idle" \/ LifeStartPremium \/ LifeStartEfficient)]_vars


\* the step is a fatal condition: audioCapture emitted 'error', or the
\* realtime client of the engine emitted 'error' or 'reconnection.failed'
FatalCondition ==
    \/ CaptureError
    \/ /\ client' # client
       /\ \E i \in 1..Len(client'.out) :
              client'.out[i].type \in {"error", "reconnection.failed"}

\* C29: every fatal condition (an audio-source error, an 'error' event of
\* the active backend, the permanent failure of reconnection) leaves the
\* engine in status error.
C29_FatalMakesError ==
    [][FatalCondition => eng'.status = "error"]_vars


\* the step is a call the owner of the engine makes: start(), stop() or
\* triggerWakeWord()
OwnerCall == StartPremium \/ StartEfficient \/ Stop \/ TriggerWakeWord

\* C30: once the status is error, no backend event and no timer moves it to
\* another value; only a call by the owner of the engine does.
C30_ErrorIsSticky ==
    [][(eng.status = "error" /\ ~OwnerCall) => eng'.status = "error"]_vars


----------------------------------------------------------------------------
(***************************************************************************)
(* SpecRouting: the JarvisEngine together with its AdaptiveRouter and      *)
(* CostTracker.  start() takes the mode from adaptiveRouter.route()        *)
(* (initializeClients, 501-506), the 'response.done' handler records the   *)
(* realtime interaction (565), and time passes.  The router starts from    *)
(* the loaded configuration or from one with a numeric budgetThreshold.    *)
(***************************************************************************)
restOfRouting == <<chainVars, executor, forcing, audit, stopLog, nudges>>

\* `this.adaptiveRouter.route()` of initializeClients, line 503
startDecision == route(router, "undefined")

RoutingStartPremium ==
    /\ startDecision.mode = "premium"
    /\ StartPremiumStep
    /\ RouteStep("undefined")
    /\ UNCHANGED restOfRouting

RoutingStartEfficient ==
    /\ startDecision.mode = "efficient"
    /\ StartEfficientStep
    /\ RouteStep("undefined")
    /\ UNCHANGED restOfRouting

RoutingStop == StopStep /\ UNCHANGED <<router, restOfRouting>>

RoutingSocketOpen ==
    (\E s \in Slots : EngSocketOpenStep(s)) /\ UNCHANGED <<router, restOfRouting>>

RoutingGreetTimerFire ==
    GreetTimerFireStep /\ UNCHANGED <<router, restOfRouting>>

RoutingSilenceTimerFire ==
    SilenceTimerFireStep /\ UNCHANGED <<router, restOfRouting>>

RoutingSpeechStarted ==
    SpeechStartedStep /\ UNCHANGED <<router, restOfRouting>>

RoutingSpeechStopped ==
    SpeechStoppedStep /\ UNCHANGED <<router, restOfRouting>>

\* 'response.done' with `costTracker.recordRealtimeInteraction(5, 1000)`
RoutingResponseDone ==
    /\ ResponseDoneStep
    /\ RecordRealtimeStep(1000)
    /\ UNCHANGED restOfRouting

RoutingClock ==
    /\ \E t \in Instants : ClockStep(t)
    /\ UNCHANGED <<clientVars, engineVars, restOfRouting>>

InitRouting ==
    /\ ClientIdle
    /\ ChainIdle
    /\ EngineIdle
    /\ ExecutorIdle
    /\ RouterAny \/ RouterOfEngine
    /\ forcing = "never"
    /\ audit = AuditInit
    /\ stopLog = "none"
    /\ nudges = NoNudges

NextRouting ==
    \/ RoutingStartPremium
    \/ RoutingStartEfficient
    \/ RoutingStop
    \/ RoutingSocketOpen
    \/ RoutingGreetTimerFire
    \/ RoutingSilenceTimerFire
    \/ RoutingSpeechStarted
    \/ RoutingSpeechStopped
    \/ RoutingResponseDone
    \/ RoutingClock

SpecRouting == InitRouting /\ [][NextRouting]_vars

(***************************************************************************)
(* Claims about routing during a session                                   *)
(***************************************************************************)
\* C31: when the cost recorded at the end of an utterance takes the usage
\* to the budget threshold while a premium session runs, the engine goes
\* over to the efficient backend for the next utterance.
C31_RerouteAtUtteranceBoundary ==
    [][(RoutingResponseDone /\ eng.isRunning
            /\ ~OverBudget(router) /\ OverBudget(router'))
          => eng'.currentMode = "efficient"]_vars


(***************************************************************************)
(* Claims about one utterance on the efficient chain                       *)
(***************************************************************************)
\* the events of a complete processAudio call in the claimed order
StageOrder ==
    <<stageTranscribing, ChainEv("transcription", "any"), stageReasoning,
      ChainEv("response", "any"), stageSynthesizing, ChainEv("audio", "any")>>

Listed(ev) == ev.type # "function.calls"

\* the log without the function.calls events and without the payloads
Observed(log) ==
    LET listed == SelectSeq(log, Listed)
    IN  [i \in 1..Len(listed) |->
            IF listed[i].type = "stage" THEN listed[i]
            ELSE ChainEv(listed[i].type, "any")]

IsPrefix(p, q) == Len(p) <= Len(q) /\ p = SubSeq(q, 1, Len(p))

\* C32: the events of one processAudio call come in the order
\* stage(transcribing), transcription, stage(reasoning), response,
\* stage(synthesizing), audio, and a call that runs to its end leaves the
\* engine status idle; a call whose stage fails emits error next and nothing
\* of a later stage.
C32_StageEventOrder ==
    /\ [](\/ IsPrefix(Observed(emitted), StageOrder)
          \/ /\ emitted # <<>>
             /\ emitted[Len(emitted)].type = "error"
             /\ chainPc = "idle"
             /\ Len(Observed(emitted)) <= Len(StageOrder)
             /\ IsPrefix(SubSeq(Observed(emitted), 1, Len(Observed(emitted)) - 1),
                         StageOrder))
    /\ [][Synthesized =>
             Observed(emitted') = StageOrder /\ eng'.status = "idle"]_vars
    /\ [][StageFail => \E error \in StageErrors :
                           emitted' = Append(emitted, ChainEv("error", error))]_vars

\* a call that emitted function.calls on its way ran to its end
C32_Witness ==
    /\ Observed(emitted) = StageOrder
    /\ Len(emitted) = Len(StageOrder) + 1
    /\ chainPc = "idle"
    /\ eng.status = "idle"


\* the errors the retry policy counts as retryable
RetryableErrors == {"ECONNRESET", "HTTP 429"} \cap StageErrors

\* the stage whose await is pending is attempted for the first time: no
\* step of the chain goes back into a stage
FirstAttempt == chainPc \in {"transcribing", "completion", "synthesizing"}

\* C33: when the first attempt of a stage fails with a retryable error, the
\* error does not propagate: the call stays in the stage, which is attempted
\* again, and no error event is emitted.
C33_RetryableIsRetried ==
    [][(FirstAttempt /\ \E error \in RetryableErrors : StageRejectStep(error))
          => (chainPc' = chainPc /\ emitted' = emitted)]_vars


\* the response text of the call in the log is empty
EmptyResponse(log) ==
    \E i \in 1..Len(log) : log[i] = ChainEv("response", "")

\* C34: when the text to synthesize is empty, no request to the synthesis
\* service is made: once the completion has returned with an empty text, no
\* elevenlabs.generate call is pending.
C34_EmptyTextSkipsSynthesis ==
    [][(Responded /\ EmptyResponse(emitted')) => chainPc' # "synthesizing"]_vars


----------------------------------------------------------------------------
(***************************************************************************)
(* SpecNudge: the JarvisEngine and its realtime client with the follow-up  *)
(* prompts counted.  nudges.speech is the number of handleSilenceTimeout   *)
(* runs since the last 'speech.started', nudges.reset the number since the *)
(* last reset of followUpCount (resetFollowUpCount 459-461, stop 490,      *)
(* triggerWakeWord 742); both stop counting at NudgeCap.                   *)
(***************************************************************************)
restOfNudge == <<chainVars, executor, router, forcing, audit, stopLog>>

NudgeCap == maxFollowUps + 2

Nudged(n) == [speech |-> Min(NudgeCap, n.speech + 1),
              reset |-> Min(NudgeCap, n.reset + 1)]

NudgeStart == StartPremiumStep /\ UNCHANGED <<nudges, restOfNudge>>

NudgeStartEfficient == StartEfficientStep /\ UNCHANGED <<nudges, restOfNudge>>

NudgeSocketFail ==
    (\E s \in Slots : EngSocketFailStep(s)) /\ UNCHANGED <<nudges, restOfNudge>>

NudgeSocketClose ==
    /\ \E s \in Slots : SocketCloseStep(s)
    /\ UNCHANGED <<engineVars, nudges, restOfNudge>>

NudgeTimerFire == TimerFireStep /\ UNCHANGED <<engineVars, nudges, restOfNudge>>

NudgeSocketOpen ==
    (\E s \in Slots : EngSocketOpenStep(s)) /\ UNCHANGED <<nudges, restOfNudge>>

NudgeStop ==
    /\ StopStep
    /\ nudges' = [nudges EXCEPT !.reset = 0]
    /\ UNCHANGED restOfNudge

NudgeTriggerWakeWord ==
    /\ TriggerWakeWordStep
    /\ nudges' = [nudges EXCEPT !.reset = 0]
    /\ UNCHANGED restOfNudge

NudgeGreetTimerFire == GreetTimerFireStep /\ UNCHANGED <<nudges, restOfNudge>>

NudgeSilenceTimerFire ==
    /\ SilenceTimerFireStep
    /\ nudges' = Nudged(nudges)
    /\ UNCHANGED restOfNudge

NudgeSpeechStarted ==
    /\ SpeechStartedStep
    /\ nudges' = NoNudges
    /\ UNCHANGED restOfNudge

NudgeSpeechStopped == SpeechStoppedStep /\ UNCHANGED <<nudges, restOfNudge>>

NudgeResponseDone == ResponseDoneStep /\ UNCHANGED <<nudges, restOfNudge>>

NudgeAudioDelta == AudioDeltaStep /\ UNCHANGED <<nudges, restOfNudge>>

NextNudge ==
    \/ NudgeStart
    \/ NudgeStartEfficient
    \/ NudgeSocketFail
    \/ NudgeSocketClose
    \/ NudgeTimerFire
    \/ NudgeSocketOpen
    \/ NudgeStop
    \/ NudgeTriggerWakeWord
    \/ NudgeGreetTimerFire
    \/ NudgeSilenceTimerFire
    \/ NudgeSpeechStarted
    \/ NudgeSpeechStopped
    \/ NudgeResponseDone
    \/ NudgeAudioDelta

SpecNudge == Init /\ [][NextNudge]_vars

(***************************************************************************)
(* Claims about the follow-up prompts                                      *)
(***************************************************************************)
\* C35 as stated: followUpCount never exceeds 2, at most 2 follow-up
\* prompts are produced between two consecutive 'speech.started' events, a
\* 'speech.started' cancels the pending silence timer and sets the counter
\* to 0, and at most one silence timer is pending.
C35_TwoNudgesPerSpeech ==
    /\ [](/\ eng.followUpCount <= maxFollowUps
          /\ nudges.speech <= maxFollowUps
          /\ eng.silenceTimer <= 1)
    /\ [][NudgeSpeechStarted =>
             eng'.silenceTimer = 0 /\ eng'.followUpCount = 0]_vars

\* C35 amended: the same with the prompts counted between two consecutive
\* resets of followUpCount, which 'speech.started', stop() and
\* triggerWakeWord() make.
C35_TwoNudgesPerReset ==
    /\ [](/\ eng.followUpCount <= maxFollowUps
          /\ nudges.reset <= maxFollowUps
          /\ eng.silenceTimer <= 1)
    /\ [][NudgeSpeechStarted =>
             eng'.silenceTimer = 0 /\ eng'.followUpCount = 0]_vars

\* the second prompt of an idle period was made and no further timer is set
C35_Witness ==
    /\ nudges.reset = maxFollowUps
    /\ eng.followUpCount = maxFollowUps
    /\ eng.status = "idle"
    /\ eng.silenceTimer = 0
    /\ eng.isRunning


(***************************************************************************)
(* Claims about inbound audio frames                                       *)
(***************************************************************************)
\* C36: handling an inbound audio frame never raises: the frame is forwarded
\* or dropped and no exception leaves handleAudioInput.
C36_AudioHandlerNeverRaises == frame # "raised"


----------------------------------------------------------------------------
(***************************************************************************)
(* SpecEngineFair: SpecEngine with the scheduling the runtime guarantees:  *)
(* a timer that is set and not cleared fires (the greeting timer, the      *)
(* silence timer, the reconnect timer, the connection timeout).  What the  *)
(* network, the microphone and the owner of the engine do is not           *)
(* guaranteed.                                                             *)
(***************************************************************************)
SpecEngineFair ==
    /\ Init
    /\ [][NextEngine]_vars
    /\ WF_vars(GreetTimerFire)
    /\ WF_vars(SilenceTimerFire)
    /\ WF_vars(EngTimerFire)
    /\ WF_vars(EngConnTimeout)

\* C37: in efficient mode audio frames buffered while the engine runs are
\* eventually handed on: the buffer is emptied and the status returns to
\* idle or error.
C37_BufferedAudioIsCommitted ==
    (eng.isRunning /\ eng.currentMode = "efficient" /\ eng.buffered > 0)
        ~> (eng.buffered = 0 /\ eng.status \in {"idle", "error"})


(***************************************************************************)
(* Claims about the sockets of one RealtimeClient                          *)
(***************************************************************************)
\* the sockets that are connecting or open, handlers attached
LiveSockets(c) == {s \in Slots : c.sock[s].st \in {"connecting", "open"}}

\* C38: at most one socket of the client is live at any time, and the close
\* event of a socket that is not the live one, arriving while another
\* socket is open, neither marks the client disconnected nor schedules a
\* reconnection.
C38_OneLiveSocket ==
    /\ [](Cardinality(LiveSockets(client)) <= 1)
    /\ [][\A s \in Slots :
             (SocketCloseStep(s) /\ \E t \in Slots \ {s} : client.sock[t].st = "open")
                 => /\ client'.isConnected = client.isConnected
                    /\ client'.reconnectTimeout = client.reconnectTimeout]_vars


----------------------------------------------------------------------------
(***************************************************************************)
(* SpecStart: calls of start() and stop() on one engine in any order,      *)
(* start() also while an earlier call of it awaits the connection, with    *)
(* the sockets of the clients opening, failing and closing underneath.     *)
(* A call of start() resumes only after the greeting timer of the call     *)
(* before it has fired.                                                    *)
(***************************************************************************)
restOfStart == <<chainVars, serviceVars>>

StartStartPremium == StartPremiumStep /\ UNCHANGED restOfStart

StartStartEfficient == StartEfficientStep /\ UNCHANGED restOfStart

StartStartAgain == StartAgainStep /\ UNCHANGED restOfStart

StartEarlierOpen == EarlierOpenStep /\ UNCHANGED restOfStart

StartEarlierFail == EarlierFailStep /\ UNCHANGED restOfStart

StartStop == StopStep /\ UNCHANGED restOfStart

StartSocketOpen ==
    /\ eng.starting => eng.greetTimers < MaxGreets
    /\ \E s \in Slots : EngSocketOpenStep(s)
    /\ UNCHANGED restOfStart

StartSocketFail == (\E s \in Slots : EngSocketFailStep(s)) /\ UNCHANGED restOfStart

StartSocketClose ==
    /\ \E s \in Slots : SocketCloseStep(s)
    /\ UNCHANGED <<engineVars, restOfStart>>

StartTimerFire == TimerFireStep /\ UNCHANGED <<engineVars, restOfStart>>

StartGreetTimerFire == GreetTimerFireStep /\ UNCHANGED restOfStart

NextStart ==
    \/ StartStartPremium
    \/ StartStartEfficient
    \/ StartStartAgain
    \/ StartEarlierOpen
    \/ StartEarlierFail
    \/ StartStop
    \/ StartSocketOpen
    \/ StartSocketFail
    \/ StartSocketClose
    \/ StartTimerFire
    \/ StartGreetTimerFire

SpecStart == Init /\ [][NextStart]_vars

\* the streaming clients that are wired to the handlers of the engine and
\* connected
ConnectedSessions(e, c) ==
    (IF e.earlier = "open" THEN 1 ELSE 0)
        + (IF e.realtimeClient /\ c.isConnected THEN 1 ELSE 0)

\* C39: the engine never has two connected streaming clients wired to its
\* handlers, and start() creates no streaming client while an earlier one
\* is connected and wired, also when start() is called again while a call
\* of it awaits the connection.
C39_OneStreamingSession ==
    /\ [](ConnectedSessions(eng, client) <= 1)
    /\ [][(StartPremiumStep \/ StartAgainStep)
             => ConnectedSessions(eng, client) = 0]_vars


(***************************************************************************)
(* Claims about the microphone during playback                             *)
(***************************************************************************)
\* C40: while response audio is being played (from the first audio chunk
\* of a response until the interaction finishes) the premium engine is in
\* status speaking, and a microphone frame that arrives then is dropped:
\* it is neither buffered nor sent to the backend.
C40_NoCaptureDuringPlayback ==
    /\ []((eng.isPlayingAudio /\ UsesRealtime(eng)) => eng.status = "speaking")
    /\ [][(AudioFrame /\ eng.isPlayingAudio)
             => (frame' = "dropped" /\ eng'.buffered = eng.buffered)]_vars

====
